---- MODULE Spec2Model ----
(***************************************************************************)
(* Model of the logos-refs Obsidian plugin: the document merger            *)
(* (file-manager.ts: createOrUpdateReferenceNote,                          *)
(* updateBibliographyInDocument, getBibtexFromLinks) and the commands of   *)
(* main.ts that drive it.                                                  *)
(*                                                                         *)
(* Note bodies are sequences of characters.  A character is a one-element  *)
(* string; a word whose inner characters no regular expression of the code *)
(* inspects ("Citations", a wiki link, an entry text) is one element.      *)
(***************************************************************************)
EXTENDS Integers, Sequences, FiniteSets, TLC

VARIABLES
    refNote,    \* SpecUpsert: body of the reference note
    prevNote,   \* SpecUpsert: body before the last upsert
    origNote,   \* SpecUpsert: body the run started from
    hist,       \* SpecUpsert: linkBack values upserted so far, in order
    note,       \* SpecBib, SpecReplace: body of the content note
    noteBefore, \* SpecBib, SpecReplace: body before the last bibliography command
    links,      \* SpecBib: cache.links of the content note, in document order
    bibFormat,  \* SpecBib: settings.bibliographyFormat
    lastList,   \* SpecBib: list written by the last command, <<>> if it wrote none;
                \* SpecReplace: the rendered list the note is updated with
    ran,        \* SpecBib, SpecReplace: the last step was a bibliography command
    repeated,   \* SpecBib: the last two steps were commands that wrote the same list
    bibSteps,   \* SpecBib: steps taken
    counters,   \* SpecPaste: settings.citationCounters in memory (0: no key)
    saved,      \* SpecPaste: citationCounters as last written by saveData
    callouts,   \* SpecPaste: per content note, the callouts inserted, in order
    refKind,    \* SpecPaste: per cite key, what the vault has at the reference path
    refBody,    \* SpecPaste: per cite key, the body of the reference note
    folderMade, \* SpecPaste: the reference folder exists
    pc,         \* SpecPaste: per command invocation, the await it is suspended at
    loc,        \* SpecPaste: per command invocation, its local variables
    minted,     \* SpecPaste: the block identifiers minted so far, in order
    started,    \* SpecPaste: paste commands started
    session,    \* SpecPaste: times the plugin has loaded its settings again
    lastResult, \* SpecPaste: how the last finished command ended
    notice,     \* SpecPaste: the Notice shown by the command started last ("": none)
    exported,   \* SpecPaste: the text of exported-references.bib
    children,   \* SpecPaste: the cite keys of the items of the reference folder, in order
    fieldValue, \* SpecEscape: the field value bibtexToMetadata is given
    yamlValue,  \* SpecEscape: the value as escaped, then as unescaped again
    escStage,   \* SpecEscape: "in", "escaped" or "unescaped"
    keyInput,   \* SpecKey: the entry text given to extractCiteKey
    keyOutput,  \* SpecKey: what extractCiteKey returned
    entry,      \* SpecConvert: the entry whose text is converted
    metaText,   \* SpecConvert: the metadata block bibtexToMetadata returned
    backText,   \* SpecConvert: the entry text metadataToBibtex returned
    inlineIn,   \* SpecInline: entry, page and format given to formatInlineCitation
    inlineOut,  \* SpecInline: the inline citation returned
    bookIn,     \* SpecEntry: entry and format given to formatBibliographyEntry
    bookOut,    \* SpecEntry: the bibliography entry returned
    clipIn,     \* SpecParse: the clipboard text given to parseLogosClipboard
    clipOut     \* SpecParse: mainText, bibtex and page returned, then the metadata block

upsertVars == <<refNote, prevNote, origNote, hist>>
bibVars == <<note, noteBefore, links, bibFormat, lastList, ran, repeated, bibSteps>>
pasteVars == <<counters, saved, callouts, refKind, refBody, folderMade,
               pc, loc, minted, started, session, lastResult,
               notice, exported, children>>
extraVars == <<bookIn, bookOut, clipIn, clipOut>>
textVars == <<fieldValue, yamlValue, escStage, keyInput, keyOutput,
              entry, metaText, backText, inlineIn, inlineOut,
              bookIn, bookOut, clipIn, clipOut>>
vars == <<refNote, prevNote, origNote, hist,
          note, noteBefore, links, bibFormat, lastList, ran, repeated, bibSteps,
          counters, saved, callouts, refKind, refBody, folderMade,
          pc, loc, minted, started, session, lastResult,
          notice, exported, children,
          fieldValue, yamlValue, escStage, keyInput, keyOutput,
          entry, metaText, backText, inlineIn, inlineOut,
          bookIn, bookOut, clipIn, clipOut>>

----------------------------------------------------------------------------
(* Bounds *)

MaxUpserts == 2
MaxBibSteps == 3
MaxPastes == 2
MaxReloads == 1
MaxValueLen == 3
MaxKeyLen == 3
MaxFields == 3
MaxAuthors == 2

----------------------------------------------------------------------------
(* Characters and fixed texts *)

NL == "\n"
SP == " "
HASH == "#"
DASH == "-"
GRAVE == "<grave>"
FENCE == GRAVE \o GRAVE \o GRAVE

CitationsHeading == <<HASH, HASH, SP, "Citations">>
Rule == <<DASH, DASH, DASH>>

\* \s of the regular expressions, over the characters the model uses
TAB == "\t"
CR == "\r"
BACKSLASH == "\\"
QUOTE == "\""
APOS == "'"
AT == "@"
COMMA == ","
COLON == ":"
EQUALS == "="
LBRACE == "{"
RBRACE == "}"

\* the characters of a string
Chars(str) == [i \in 1..Len(str) |-> SubSeq(str, i, i)]

\* \s of the regular expressions and the white space String.trim removes
IsSpace(c) == c \in {NL, SP, TAB, CR}

Lower == Chars("abcdefghijklmnopqrstuvwxyz")
Upper == Chars("ABCDEFGHIJKLMNOPQRSTUVWXYZ")
Digits == Chars("0123456789")

\* [A-Za-z0-9]
IsAlnum(c) == \E i \in 1..26 : c = Lower[i] \/ c = Upper[i] \/ (i <= 10 /\ c = Digits[i])
\* \w
IsWord(c) == IsAlnum(c) \/ c = "_"

\* String.toLowerCase, character by character
toLowerCase(s) ==
    [i \in 1..Len(s) |->
        IF \E k \in 1..26 : Upper[k] = s[i]
        THEN Lower[CHOOSE k \in 1..26 : Upper[k] = s[i]]
        ELSE s[i]]

----------------------------------------------------------------------------
(* String primitives of JavaScript used by the code *)

Min(S) == CHOOSE x \in S : \A y \in S : x <= y
Max(S) == CHOOSE x \in S : \A y \in S : x >= y

\* pat occurs in s at index i
MatchesAt(s, pat, i) ==
    /\ i >= 1
    /\ i + Len(pat) - 1 <= Len(s)
    /\ \A j \in 1..Len(pat) : s[i + j - 1] = pat[j]

\* String.prototype.indexOf, 1-based; 0 when absent
IndexOf(s, pat) ==
    LET hits == {i \in 1..(Len(s) + 1) : MatchesAt(s, pat, i)}
    IN IF hits = {} THEN 0 ELSE Min(hits)

\* String.prototype.includes
includes(s, pat) == IndexOf(s, pat) # 0

\* String.prototype.trim
trim(s) ==
    LET keep == {i \in 1..Len(s) : ~IsSpace(s[i])}
    IN IF keep = {} THEN <<>> ELSE SubSeq(s, Min(keep), Max(keep))

\* length of the match of /\n#+\s/ anchored at index j of s; 0 when none
HeadingAt(s, j) ==
    IF j + 2 > Len(s) \/ s[j] # NL \/ s[j + 1] # HASH THEN 0
    ELSE LET run == Min({k \in 1..(Len(s) - j + 1) :
                            j + k > Len(s) \/ s[j + k] # HASH}) - 1
         IN IF j + run + 1 <= Len(s) /\ IsSpace(s[j + run + 1])
            THEN run + 2 ELSE 0

----------------------------------------------------------------------------
(* createOrUpdateReferenceNote, the update branch: the new body of an     *)
(* existing reference note                                                *)

\* as upsertCitation, without the test for a line that is already there
upsertCitationAlways(body, linkBack) ==
    LET citationLine == <<DASH, SP>> \o linkBack
    IN IF includes(body, CitationsHeading)
       THEN LET i == IndexOf(body, CitationsHeading)
                a == i + Len(CitationsHeading)
                j == Min({k \in a..(Len(body) + 1) :
                             k = Len(body) + 1 \/ HeadingAt(body, k) > 0})
                h == IF j > Len(body) THEN 0 ELSE HeadingAt(body, j)
                followingHeading == SubSeq(body, j, j + h - 1)
                citations == SubSeq(body, a, j - 1)
            IN SubSeq(body, 1, i - 1)
                 \o CitationsHeading \o <<NL>> \o trim(citations) \o <<NL>>
                 \o citationLine \o <<NL>> \o followingHeading
                 \o SubSeq(body, j + h, Len(body))
       ELSE trim(body) \o <<NL, NL>> \o CitationsHeading \o <<NL>> \o citationLine

\* as upsertCitation, the lines already listed left out of the new region
upsertCitationDropsOld(body, linkBack) ==
    LET citationLine == <<DASH, SP>> \o linkBack
    IN IF includes(body, CitationsHeading)
       THEN LET i == IndexOf(body, CitationsHeading)
                a == i + Len(CitationsHeading)
                j == Min({k \in a..(Len(body) + 1) :
                             k = Len(body) + 1 \/ HeadingAt(body, k) > 0})
                h == IF j > Len(body) THEN 0 ELSE HeadingAt(body, j)
                followingHeading == SubSeq(body, j, j + h - 1)
                match == SubSeq(body, i, j + h - 1)
            IN IF ~includes(match, linkBack)
               THEN SubSeq(body, 1, i - 1)
                      \o CitationsHeading \o <<NL>>
                      \o citationLine \o <<NL>> \o followingHeading
                      \o SubSeq(body, j + h, Len(body))
               ELSE body
       ELSE trim(body) \o <<NL, NL>> \o CitationsHeading \o <<NL>> \o citationLine

upsertCitation(body, linkBack) ==
    LET citationLine == <<DASH, SP>> \o linkBack
    IN IF includes(body, CitationsHeading)
       THEN LET i == IndexOf(body, CitationsHeading)
                a == i + Len(CitationsHeading)
                \* ([\s\S]*?) is lazy: the first k where (\n#+\s) or $ matches
                j == Min({k \in a..(Len(body) + 1) :
                             k = Len(body) + 1 \/ HeadingAt(body, k) > 0})
                h == IF j > Len(body) THEN 0 ELSE HeadingAt(body, j)
                followingHeading == SubSeq(body, j, j + h - 1)
                citations == SubSeq(body, a, j - 1)
                match == SubSeq(body, i, j + h - 1)
            IN IF ~includes(match, linkBack)
               THEN SubSeq(body, 1, i - 1)
                      \o CitationsHeading \o <<NL>> \o trim(citations) \o <<NL>>
                      \o citationLine \o <<NL>> \o followingHeading
                      \o SubSeq(body, j + h, Len(body))
               ELSE body
       ELSE trim(body) \o <<NL, NL>> \o CitationsHeading \o <<NL>> \o citationLine

----------------------------------------------------------------------------
(* Reading a note body back as lines (used to state the properties) *)

\* index of the first NL of s at or after i, Len(s) + 1 when none
NextNL(s, i) == Min({k \in i..(Len(s) + 1) : k = Len(s) + 1 \/ s[k] = NL})

RECURSIVE SplitFrom(_, _)
SplitFrom(s, i) ==
    IF i > Len(s) + 1 THEN <<>>
    ELSE LET e == NextNL(s, i)
         IN <<SubSeq(s, i, e - 1)>> \o SplitFrom(s, e + 1)

\* String.prototype.split('\n')
SplitLines(s) == SplitFrom(s, 1)

\* a Markdown heading line of any level: one or more '#', then a space
IsHeadingLine(l) ==
    /\ Len(l) >= 2
    /\ l[1] = HASH
    /\ \E k \in 2..Len(l) : l[k] = SP /\ \A m \in 1..(k - 1) : l[m] = HASH

\* the linkBack values listed under "## Citations", in order: the list lines
\* between the heading line and the next heading line (or the end)
CitationList(body) ==
    LET ls == SplitLines(body)
        hs == {i \in 1..Len(ls) : ls[i] = CitationsHeading}
    IN IF hs = {} THEN <<>>
       ELSE LET h == Min(hs)
                e == Min({k \in (h + 1)..(Len(ls) + 1) :
                             k = Len(ls) + 1 \/ IsHeadingLine(ls[k])})
                IsItem(l) == Len(l) > 2 /\ l[1] = DASH /\ l[2] = SP
                items == SelectSeq(SubSeq(ls, h + 1, e - 1), IsItem)
            IN [k \in 1..Len(items) |-> SubSeq(items[k], 3, Len(items[k]))]

Range(f) == {f[k] : k \in DOMAIN f}
Last(seq) == seq[Len(seq)]

----------------------------------------------------------------------------
(* SpecUpsert: upsertCitation applied to bounded reference-note bodies *)

\* `[[<basename>#^<blockId>]]`
LinkTo(basename, blockId) == "[[" \o basename \o "#^" \o blockId \o "]]"
PageMark == " \\u2192 p. "

LkA == <<LinkTo("Note", "Key-1")>>
LkAPage == <<LinkTo("Note", "Key-1"), PageMark, "5">>
LkB == <<LinkTo("Note", "Key-2")>>
UpsertLinks == {LkA, LkAPage, LkB}

MetaHeader == Rule \o <<NL, "type: book", NL>> \o Rule \o <<NL, NL>>
NotesSection == <<NL, HASH, HASH, SP, "Notes", NL, "text">>
TopSection == <<NL, HASH, SP, "Top">>

CitationsSections ==
    {CitationsHeading \o items \o tail :
        items \in {<<>>} \cup {<<NL, DASH, SP>> \o l : l \in UpsertLinks},
        tail \in {<<>>, <<NL>>}}

RefBodies ==
    {pre \o mid \o post :
        pre \in {<<>>, MetaHeader},
        mid \in {<<>>} \cup CitationsSections,
        post \in {<<>>, NotesSection, TopSection}}

----------------------------------------------------------------------------
(* The vault and the settings of the paste command *)

Procs == {1, 2}

\* the content notes: TFile.path; two of them have the same file name
ContentNotes == {"a/Note.md", "b/Note.md", "Other.md"}

\* TFile.name
FileName(path) == IF path = "Other.md" THEN "Other.md" ELSE "Note.md"
\* TFile.basename
BaseName(path) == IF path = "Other.md" THEN "Other" ELSE "Note"

FileNames == {FileName(n) : n \in ContentNotes}

\* the cite keys extractCiteKey returns for the clipboards of the model
CiteKeys == {"Key", "Smith"}
NoKey == "<none>"
\* the page parseLogosClipboard returns: none, or its characters (one page,
\* a page range)
Pages == {<<>>, <<"5">>, <<"5", "-", "9">>}

\* settings.bibFolder
BibFolder == "refs"
RefPath(key) == BibFolder \o "/" \o key \o ".md"

NoLoc == [note |-> "", clip |-> <<>>, key |-> "", page |-> <<>>, ctr |-> 0,
          snap |-> [n \in FileNames |-> 0], body |-> <<>>]

\* a legacy reference note: a fenced entry, no Citations section
LegacyBody == <<FENCE \o "bibtex", NL, "@book{Smith}", NL, FENCE>>

PasteIdle ==
    /\ counters = [n \in FileNames |-> 0]
    /\ saved = [n \in FileNames |-> 0]
    /\ callouts = [n \in ContentNotes |-> <<>>]
    /\ refKind = [k \in CiteKeys |-> "none"]
    /\ refBody = [k \in CiteKeys |-> <<>>]
    /\ folderMade = FALSE
    /\ pc = [p \in Procs |-> "idle"]
    /\ loc = [p \in Procs |-> NoLoc]
    /\ minted = <<>>
    /\ started = 0
    /\ session = 0
    /\ lastResult = "none"
    /\ notice = ""
    /\ exported = <<"<no file>">>
    /\ children = <<>>

BibIdle ==
    /\ note = <<>>
    /\ noteBefore = <<>>
    /\ links = <<>>
    /\ bibFormat = "latex"
    /\ lastList = <<>>
    /\ ran = FALSE
    /\ repeated = FALSE
    /\ bibSteps = 0

UpsertIdle ==
    /\ refNote = <<>>
    /\ prevNote = <<>>
    /\ origNote = <<>>
    /\ hist = <<>>

\* nothing has been given to the text functions
Unset == <<"<unset>">>

EscapeIdle == fieldValue = Unset /\ yamlValue = Unset /\ escStage = "in"
KeyIdle == keyInput = Unset /\ keyOutput = Unset
ConvertIdle == entry = Unset /\ metaText = Unset /\ backText = Unset
InlineIdle == inlineIn = Unset /\ inlineOut = Unset
EntryIdle == bookIn = Unset /\ bookOut = Unset
ParseIdle == clipIn = Unset /\ clipOut = Unset
ExtraIdle == EntryIdle /\ ParseIdle

TextIdle == EscapeIdle /\ KeyIdle /\ ConvertIdle /\ InlineIdle /\ ExtraIdle

InitUpsert ==
    /\ refNote \in RefBodies
    /\ prevNote = refNote
    /\ origNote = refNote
    /\ hist = <<>>
    /\ BibIdle
    /\ PasteIdle
    /\ TextIdle

Upsert(l) ==
    /\ Len(hist) < MaxUpserts
    /\ refNote' = upsertCitation(refNote, l)
    /\ prevNote' = refNote
    /\ hist' = Append(hist, l)
    /\ UNCHANGED origNote
    /\ UNCHANGED bibVars
    /\ UNCHANGED <<pasteVars, textVars>>

NextUpsert == \E l \in UpsertLinks : Upsert(l)

SpecUpsert == InitUpsert /\ [][NextUpsert]_vars

----------------------------------------------------------------------------
(* Properties of upsertCitation *)

\* C1: upsertCitation is idempotent: upserting the same linkBack a second
\* time leaves the note as the first upsert left it, and upserting a linkBack
\* that is already a line of the Citations list changes nothing.
UpsertIdempotent ==
    /\ (Len(hist) >= 2 /\ hist[Len(hist)] = hist[Len(hist) - 1])
          => refNote = prevNote
    /\ \A l \in UpsertLinks :
          l \in Range(CitationList(refNote)) => upsertCitation(refNote, l) = refNote

\* the same linkBack upserted twice into a note that had no Citations heading
\* and has a section after the place where the list is appended
UpsertIdempotentWitness ==
    /\ Len(hist) = 2
    /\ hist[1] = hist[2]
    /\ ~includes(origNote, CitationsHeading)
    /\ includes(origNote, NotesSection)
    /\ prevNote # origNote
    /\ refNote = prevNote
    /\ hist[1] \in Range(CitationList(refNote))

\* C2: two distinct linkBacks, neither listed before, upserted one after the
\* other are both lines of the Citations list afterwards, the first before
\* the second.
UpsertTwoDistinctKeepsBoth ==
    (/\ Len(hist) = 2
     /\ hist[1] # hist[2]
     /\ hist[1] \notin Range(CitationList(origNote))
     /\ hist[2] \notin Range(CitationList(origNote)))
    => LET c == CitationList(refNote)
       IN \E i, j \in DOMAIN c : i < j /\ c[i] = hist[1] /\ c[j] = hist[2]

----------------------------------------------------------------------------
(* updateBibliographyInDocument: the new body of the content note *)

BibHeading == <<HASH, HASH, SP, "Bibliography">>

\* the lookahead (?=\n##\s|\n---(?:\s|$)|$) at index k of s
BibBoundaryAt(s, k) ==
    \/ k = Len(s) + 1
    \/ /\ MatchesAt(s, <<NL, HASH, HASH>>, k)
       /\ k + 3 <= Len(s)
       /\ IsSpace(s[k + 3])
    \/ /\ MatchesAt(s, <<NL>> \o Rule, k)
       /\ (k + 4 = Len(s) + 1 \/ IsSpace(s[k + 4]))

\* the replacement patterns String.prototype.replace expands in a string
\* replacement when the pattern has no capture group: $$, $&, $` and $'
\* (the grave accent is written GRAVE: it cannot stand in a string here)
RECURSIVE ExpandReplacement(_, _, _, _)
ExpandReplacement(repl, matched, before, after) ==
    IF repl = <<>> THEN <<>>
    ELSE IF repl[1] = "$" /\ Len(repl) >= 2 /\ repl[2] \in {"$", "&", GRAVE, "'"}
         THEN (CASE repl[2] = "$" -> <<"$">>
                 [] repl[2] = "&" -> matched
                 [] repl[2] = GRAVE -> before
                 [] repl[2] = "'" -> after)
              \o ExpandReplacement(SubSeq(repl, 3, Len(repl)), matched, before, after)
         ELSE <<repl[1]>> \o ExpandReplacement(Tail(repl), matched, before, after)

replaceBibliography(content, bibliographyList) ==
    LET pat == BibHeading \o <<NL>>
    IN IF includes(content, pat)
       THEN LET i == IndexOf(content, pat)
                a == i + Len(pat)
                \* [\s\S]*? is lazy: the first k where the lookahead holds
                j == Min({k \in a..(Len(content) + 1) : BibBoundaryAt(content, k)})
                before == SubSeq(content, 1, i - 1)
                after == SubSeq(content, j, Len(content))
            IN before
                 \o ExpandReplacement(BibHeading \o <<NL>> \o bibliographyList \o <<NL>>,
                                      SubSeq(content, i, j - 1), before, after)
                 \o after
       ELSE content \o <<NL, NL>> \o BibHeading \o <<NL>> \o bibliographyList

----------------------------------------------------------------------------
(* The vault read by the bibliography command *)

LinkTargets == {"refs/A.md", "refs/B.md", "refs/X.md"}

\* what getBibtexFromLinks extracts from the file at a link target: the entry
\* of a note with a metadata header (A), the fenced entry of a legacy note (B),
\* nothing when the target is no file of the vault (X)
BibtexAt(link) ==
    CASE link = "refs/A.md" -> <<"@book{A}">>
      [] link = "refs/B.md" -> <<"@article{B}">>
      [] OTHER -> <<>>

EntryTexts == {"@book{A}", "@article{B}", "@misc{Old}"}

\* Array.from(new Set(...)): first occurrences, in order
RECURSIVE Unique(_)
Unique(seq) ==
    IF seq = <<>> THEN <<>>
    ELSE LET init == SubSeq(seq, 1, Len(seq) - 1)
         IN IF Last(seq) \in Range(init) THEN Unique(init)
            ELSE Append(Unique(init), Last(seq))

getAllLinksInDocument(cacheLinks) == Unique(cacheLinks)

RECURSIVE getBibtexFromLinks(_)
getBibtexFromLinks(ls) ==
    IF ls = <<>> THEN <<>>
    ELSE BibtexAt(Head(ls)) \o getBibtexFromLinks(Tail(ls))

\* one reference as formatBibliographyList renders it
RenderEntry(bibtex, format) ==
    IF format = "latex"
    THEN <<FENCE \o "bibtex", NL, bibtex, NL, FENCE>>
    ELSE <<format \o ":" \o bibtex>>

RECURSIVE formatBibliographyList(_, _)
formatBibliographyList(refs, format) ==
    IF refs = <<>> THEN <<>>
    ELSE IF Len(refs) = 1 THEN RenderEntry(refs[1], format)
    ELSE RenderEntry(refs[1], format) \o <<NL, NL>>
           \o formatBibliographyList(Tail(refs), format)

----------------------------------------------------------------------------
(* SpecBib: the list-bibtex-references command on bounded content notes *)

OldList == <<"@misc{Old}">>
NextSection == <<NL, HASH, HASH, SP, "Next", NL, "more">>
SubSection == <<NL, HASH, HASH, HASH, SP, "Sub", NL, "kept">>
Footer == <<NL>> \o Rule \o <<NL, "footer">>

ContentBodies ==
    {<<"text">> \o sec \o post :
        sec \in {<<>>,
                 <<NL>> \o BibHeading,
                 <<NL>> \o BibHeading \o <<NL>> \o OldList,
                 <<NL>> \o BibHeading \o <<NL>> \o OldList \o <<NL>>},
        post \in {<<>>, NextSection, SubSection, Footer}}

InitBib ==
    /\ note \in ContentBodies
    /\ noteBefore = note
    /\ links \in {<<>>, <<"refs/A.md">>}
    /\ bibFormat \in {"latex", "mla"}
    /\ lastList = <<>>
    /\ ran = FALSE
    /\ repeated = FALSE
    /\ bibSteps = 0
    /\ refNote = <<>> /\ prevNote = <<>> /\ origNote = <<>> /\ hist = <<>>
    /\ PasteIdle
    /\ TextIdle

\* the user adds a link to the note: the cache lists it last
AddLink(l) ==
    /\ bibSteps < MaxBibSteps
    /\ Len(links) < 2
    /\ links' = Append(links, l)
    /\ lastList' = <<>>
    /\ ran' = FALSE
    /\ repeated' = FALSE
    /\ bibSteps' = bibSteps + 1
    /\ UNCHANGED <<note, noteBefore, bibFormat>>
    /\ UNCHANGED upsertVars
    /\ UNCHANGED <<pasteVars, textVars>>

\* the user removes the k-th link of the note
RemoveLink(k) ==
    /\ bibSteps < MaxBibSteps
    /\ k \in DOMAIN links
    /\ links' = SubSeq(links, 1, k - 1) \o SubSeq(links, k + 1, Len(links))
    /\ lastList' = <<>>
    /\ ran' = FALSE
    /\ repeated' = FALSE
    /\ bibSteps' = bibSteps + 1
    /\ UNCHANGED <<note, noteBefore, bibFormat>>
    /\ UNCHANGED upsertVars
    /\ UNCHANGED <<pasteVars, textVars>>

\* the list-bibtex-references command
ListBibtexReferences ==
    /\ bibSteps < MaxBibSteps
    /\ bibSteps' = bibSteps + 1
    /\ ran' = TRUE
    /\ noteBefore' = note
    /\ LET ls == getAllLinksInDocument(links)
           bibtexReferences == getBibtexFromLinks(ls)
           bibliographyList == formatBibliographyList(bibtexReferences, bibFormat)
       IN IF Len(ls) = 0 \/ Len(bibtexReferences) = 0
          THEN \* "No references found": the command returns, nothing is written
               /\ note' = note
               /\ lastList' = <<>>
               /\ repeated' = FALSE
          ELSE /\ note' = replaceBibliography(note, bibliographyList)
               /\ lastList' = bibliographyList
               /\ repeated' = (lastList = bibliographyList)
    /\ UNCHANGED <<links, bibFormat>>
    /\ UNCHANGED upsertVars
    /\ UNCHANGED <<pasteVars, textVars>>

NextBib ==
    \/ \E l \in LinkTargets : AddLink(l)
    \/ \E k \in 1..2 : RemoveLink(k)
    \/ ListBibtexReferences

SpecBib == InitBib /\ [][NextBib]_vars

----------------------------------------------------------------------------
(* Properties of the bibliography command *)

\* index of the first "## Bibliography" heading line of b, 0 when none
BibHeadingIndex(b) ==
    LET hs == {i \in 1..Len(b) :
                  /\ MatchesAt(b, BibHeading, i)
                  /\ (i = 1 \/ b[i - 1] = NL)
                  /\ (i + Len(BibHeading) = Len(b) + 1 \/ b[i + Len(BibHeading)] = NL)}
    IN IF hs = {} THEN 0 ELSE Min(hs)

\* number of "## Bibliography" heading lines of b
BibHeadingCount(b) ==
    LET ls == SplitLines(b)
    IN Cardinality({i \in DOMAIN ls : ls[i] = BibHeading})

\* a horizontal-rule line starts after the NL at index k of s
RuleAt(s, k) ==
    /\ MatchesAt(s, <<NL>> \o Rule, k)
    /\ (k + 4 = Len(s) + 1 \/ IsSpace(s[k + 4]))

\* where the section that starts with the heading at index i of b closes: at
\* the next heading of any level, at a horizontal-rule line, or at the end
SectionEnd(b, i) ==
    Min({k \in (i + Len(BibHeading))..(Len(b) + 1) :
            k = Len(b) + 1 \/ HeadingAt(b, k) > 0 \/ RuleAt(b, k)})

IsPrefix(p, s) == Len(p) <= Len(s) /\ SubSeq(s, 1, Len(p)) = p
IsSuffix(p, s) == Len(p) <= Len(s) /\ SubSeq(s, Len(s) - Len(p) + 1, Len(s)) = p

\* an entry is shown in a note body, raw or rendered
EntryShown(b, e) ==
    \/ e \in Range(b)
    \/ \E f \in {"mla", "apa", "chicago"} : (f \o ":" \o e) \in Range(b)

\* C3: replaceBibliography is idempotent: a command that writes the list the
\* command before it wrote leaves the note byte-identical.
BibRepeatIsNoOp == repeated => note = noteBefore

\* C4: a command that writes the bibliography keeps the text before the
\* "## Bibliography" heading and the text from the section's closing boundary
\* (next heading of any level, horizontal rule, end of note) unchanged.
BibFrameKept ==
    (ran /\ lastList # <<>>)
    => LET i == BibHeadingIndex(noteBefore)
       IN IF i = 0 THEN IsPrefix(noteBefore, note)
          ELSE LET e == SectionEnd(noteBefore, i)
               IN /\ IsPrefix(SubSeq(noteBefore, 1, i + Len(BibHeading) - 1), note)
                  /\ IsSuffix(SubSeq(noteBefore, e, Len(noteBefore)), note)
                  /\ Len(note) >= i + Len(BibHeading) - 1 + (Len(noteBefore) - e + 1)

\* C5: the content note never has more than one "## Bibliography" heading.
AtMostOneBibHeading == BibHeadingCount(note) <= 1

\* C6: after a run of the command the note shows exactly the entries of the
\* reference notes its links point to.
BibListsCurrentLinks ==
    ran => \A e \in EntryTexts :
              EntryShown(note, e) <=> (\E k \in DOMAIN links : BibtexAt(links[k]) = <<e>>)

----------------------------------------------------------------------------
(* bibtex-converter.ts: the escaping of a field value in the metadata     *)
(* block and its unescaping                                               *)

\* String.replace(/pat/g, rep) for a pattern that is a fixed text
RECURSIVE ReplaceAll(_, _, _)
ReplaceAll(s, pat, rep) ==
    IF Len(s) < Len(pat) THEN s
    ELSE IF SubSeq(s, 1, Len(pat)) = pat
         THEN rep \o ReplaceAll(SubSeq(s, Len(pat) + 1, Len(s)), pat, rep)
         ELSE <<s[1]>> \o ReplaceAll(SubSeq(s, 2, Len(s)), pat, rep)

\* bibtexToMetadata: backslashes first, then quotes, newlines, carriage
\* returns and tabs
escapeValue(value) ==
    LET s1 == ReplaceAll(value, <<BACKSLASH>>, <<BACKSLASH, BACKSLASH>>)
        s2 == ReplaceAll(s1, <<QUOTE>>, <<BACKSLASH, QUOTE>>)
        s3 == ReplaceAll(s2, <<NL>>, <<BACKSLASH, "n">>)
        s4 == ReplaceAll(s3, <<CR>>, <<BACKSLASH, "r">>)
    IN ReplaceAll(s4, <<TAB>>, <<BACKSLASH, "t">>)

\* metadataToBibtex: \n, \r, \t, \" and last \\
unescapeValue(value) ==
    LET s1 == ReplaceAll(value, <<BACKSLASH, "n">>, <<NL>>)
        s2 == ReplaceAll(s1, <<BACKSLASH, "r">>, <<CR>>)
        s3 == ReplaceAll(s2, <<BACKSLASH, "t">>, <<TAB>>)
        s4 == ReplaceAll(s3, <<BACKSLASH, QUOTE>>, <<QUOTE>>)
    IN ReplaceAll(s4, <<BACKSLASH, BACKSLASH>>, <<BACKSLASH>>)

\* sequences over S of length at most n
SeqsUpTo(S, n) == UNION {[1..k -> S] : k \in 0..n}

\* SpecEscape: a field value is escaped, then unescaped
ValueChars == {"a", "n", "t", BACKSLASH, QUOTE, NL, TAB}

InitEscape ==
    /\ fieldValue \in SeqsUpTo(ValueChars, MaxValueLen)
    /\ yamlValue = fieldValue
    /\ escStage = "in"
    /\ KeyIdle /\ ConvertIdle /\ InlineIdle
    /\ UpsertIdle /\ BibIdle /\ PasteIdle /\ ExtraIdle

Escape ==
    /\ escStage = "in"
    /\ yamlValue' = escapeValue(fieldValue)
    /\ escStage' = "escaped"
    /\ UNCHANGED <<fieldValue, keyInput, keyOutput, entry, metaText, backText,
                   inlineIn, inlineOut>>
    /\ UNCHANGED <<upsertVars, bibVars, pasteVars, extraVars>>

Unescape ==
    /\ escStage = "escaped"
    /\ yamlValue' = unescapeValue(yamlValue)
    /\ escStage' = "unescaped"
    /\ UNCHANGED <<fieldValue, keyInput, keyOutput, entry, metaText, backText,
                   inlineIn, inlineOut>>
    /\ UNCHANGED <<upsertVars, bibVars, pasteVars, extraVars>>

NextEscape == Escape \/ Unescape

SpecEscape == InitEscape /\ [][NextEscape]_vars

\* C15: unescaping the escaped form of a field value gives the value back,
\* whatever mix of backslash, quote, newline, tab and ordinary characters
\* (the letters n and t among them) it is built from.
EscapeRoundTrip == escStage = "unescaped" => yamlValue = fieldValue

----------------------------------------------------------------------------
(* clipboard-parser.ts: extractCiteKey *)

\* thrown by extractCiteKey
MissingCiteKey == <<"<Could not extract cite key>">>

\* the character classes of the regular expressions
InClass(c, class) ==
    CASE class = "\\w" -> IsWord(c)
      [] class = "\\s" -> IsSpace(c)
      [] class = "[_\\W]" -> ~IsAlnum(c)
      [] class = "-" -> c = DASH
      [] class = "[^,]" -> c # COMMA
      [] class = "[^{}]" -> c \notin {LBRACE, RBRACE}
      [] class = "[^\"]" -> c # QUOTE
      [] class = "[^}\"]" -> c \notin {RBRACE, QUOTE}
      [] class = "[^}]" -> c # RBRACE

\* the end of the longest run of characters of the class from position i on
\* (the position after the run)
RunEnd(s, i, class) ==
    Min({k \in i..(Len(s) + 1) : k = Len(s) + 1 \/ ~InClass(s[k], class)})

\* .replace(/[_\W]+/g, '-'): every run of characters other than letters and
\* digits becomes one hyphen
RECURSIVE HyphenateRuns(_)
HyphenateRuns(s) ==
    IF s = <<>> THEN <<>>
    ELSE IF IsAlnum(s[1]) THEN <<s[1]>> \o HyphenateRuns(Tail(s))
         ELSE LET e == RunEnd(s, 1, "[_\\W]")
              IN <<DASH>> \o HyphenateRuns(SubSeq(s, e, Len(s)))

\* .replace(/-+/g, '-')
RECURSIVE CollapseHyphens(_)
CollapseHyphens(s) ==
    IF s = <<>> THEN <<>>
    ELSE IF s[1] # DASH THEN <<s[1]>> \o CollapseHyphens(Tail(s))
         ELSE LET e == RunEnd(s, 1, "-")
              IN <<DASH>> \o CollapseHyphens(SubSeq(s, e, Len(s)))

\* .replace(/^-|-$/g, ''): a hyphen at the start and a hyphen at the end
StripEdgeHyphens(s) ==
    LET s1 == IF s # <<>> /\ s[1] = DASH THEN Tail(s) ELSE s
    IN IF s1 # <<>> /\ s1[Len(s1)] = DASH THEN SubSeq(s1, 1, Len(s1) - 1) ELSE s1

\* ([^,]+), read after the brace at position w, the run ending at position e
KeyCapture(bibtex, w, e) ==
    IF e = w + 1 \/ e > Len(bibtex) THEN <<>> ELSE SubSeq(bibtex, w + 1, e - 1)

\* \{([^,]+), read from position w, the position after the entry type
KeyAfterType(bibtex, w) ==
    IF w = 2 \/ w > Len(bibtex) \/ bibtex[w] # LBRACE THEN <<>>
    ELSE KeyCapture(bibtex, w, RunEnd(bibtex, w + 1, "[^,]"))

\* bibtex.match(/^@\w+\{([^,]+),/): the text between the brace and the first
\* comma after it, <<>> when there is no match
CiteKeyMatch(bibtex) ==
    IF bibtex = <<>> \/ bibtex[1] # AT THEN <<>>
    ELSE KeyAfterType(bibtex, RunEnd(bibtex, 2, "\\w"))

\* the key of a match: the three replacements; without a match the function
\* throws
KeyOfMatch(match) ==
    IF match = <<>> THEN MissingCiteKey
    ELSE StripEdgeHyphens(CollapseHyphens(HyphenateRuns(match)))

extractCiteKey(bibtex) == KeyOfMatch(CiteKeyMatch(bibtex))

\* SpecKey: extractCiteKey applied to bounded entry texts
KeyChars == {"a", "B", "7", "_", DASH, SP}
EntryHead == <<AT, "b", "o", "o", "k", LBRACE>>

KeyInputs ==
    {EntryHead \o k \o <<COMMA, NL, RBRACE>> : k \in SeqsUpTo(KeyChars, MaxKeyLen)}
      \cup {EntryHead \o k : k \in SeqsUpTo(KeyChars, 1)}
      \cup {<<>>, <<AT, LBRACE, "a", COMMA>>, <<"b", LBRACE, "a", COMMA>>,
            <<SP>> \o EntryHead \o <<"a", COMMA>>}

InitKey ==
    /\ keyInput \in KeyInputs
    /\ keyOutput = Unset
    /\ EscapeIdle /\ ConvertIdle /\ InlineIdle
    /\ UpsertIdle /\ BibIdle /\ PasteIdle /\ ExtraIdle

ExtractCiteKey ==
    /\ keyOutput = Unset
    /\ keyOutput' = extractCiteKey(keyInput)
    /\ UNCHANGED <<keyInput, fieldValue, yamlValue, escStage, entry, metaText,
                   backText, inlineIn, inlineOut>>
    /\ UNCHANGED <<upsertVars, bibVars, pasteVars, extraVars>>

NextKey == ExtractCiteKey

SpecKey == InitKey /\ [][NextKey]_vars

\* C17: a key that extractCiteKey returns is not empty, holds only letters,
\* digits and hyphens, and has no hyphen at its start, at its end or next to
\* another hyphen.
CiteKeyNormalized ==
    (keyOutput # Unset /\ keyOutput # MissingCiteKey)
       => /\ keyOutput # <<>>
          /\ \A i \in DOMAIN keyOutput : IsAlnum(keyOutput[i]) \/ keyOutput[i] = DASH
          /\ keyOutput[1] # DASH
          /\ keyOutput[Len(keyOutput)] # DASH
          /\ \A i \in 1..(Len(keyOutput) - 1) :
                ~(keyOutput[i] = DASH /\ keyOutput[i + 1] = DASH)

\* as C17 but for the empty key: what holds of the keys of the code
CiteKeyNormalizedOrEmpty ==
    (keyOutput # Unset /\ keyOutput # MissingCiteKey /\ keyOutput # <<>>)
       => /\ \A i \in DOMAIN keyOutput : IsAlnum(keyOutput[i]) \/ keyOutput[i] = DASH
          /\ keyOutput[1] # DASH
          /\ keyOutput[Len(keyOutput)] # DASH
          /\ \A i \in 1..(Len(keyOutput) - 1) :
                ~(keyOutput[i] = DASH /\ keyOutput[i + 1] = DASH)

----------------------------------------------------------------------------
(* bibtex-converter.ts: bibtexToMetadata and metadataToBibtex *)

\* the value of a failed match: null
NoMatch == <<"<null>">>

\* the text pat stands at position i of s, letter case ignored (flag i)
MatchesAtCI(s, pat, i) ==
    /\ i >= 1
    /\ i + Len(pat) - 1 <= Len(s)
    /\ toLowerCase(SubSeq(s, i, i + Len(pat) - 1)) = pat


\* [^{}]*(?:\{[^{}]*\}[^{}]*)*\} read from position i: the position of the
\* closing brace, 0 when the text does not match
RECURSIVE BraceGroupEnd(_, _)
BraceGroupEnd(s, i) ==
    LET e == RunEnd(s, i, "[^{}]")
    IN IF e > Len(s) THEN 0
       ELSE IF s[e] = RBRACE THEN e
       ELSE LET f == RunEnd(s, e + 1, "[^{}]")
            IN IF f > Len(s) \/ s[f] # RBRACE THEN 0
               ELSE BraceGroupEnd(s, f + 1)

\* =\s* read from position j, after the field name and the spaces behind it
FieldHeadRest(s, j) ==
    IF j > Len(s) \/ s[j] # EQUALS THEN 0 ELSE RunEnd(s, j + 1, "\\s")

\* field\s*=\s* read from position i: the position after it, 0 when the
\* text does not match
FieldHeadEnd(s, field, i) ==
    IF ~MatchesAtCI(s, field, i) THEN 0
    ELSE FieldHeadRest(s, RunEnd(s, i + Len(field), "\\s"))

\* the capture between the delimiter at position k and the closing one at
\* position e; e is 0 or beyond the text when there is no closing delimiter
Capture(s, k, e) ==
    IF e = 0 \/ e > Len(s) THEN NoMatch ELSE SubSeq(s, k + 1, e - 1)

\* \{([^{}]*(?:\{[^{}]*\}[^{}]*)*)\} read from position k
BraceMatchFrom(s, k) ==
    IF k = 0 \/ k > Len(s) \/ s[k] # LBRACE THEN NoMatch
    ELSE Capture(s, k, BraceGroupEnd(s, k + 1))

\* "([^"]*)" read from position k
QuoteMatchFrom(s, k) ==
    IF k = 0 \/ k > Len(s) \/ s[k] # QUOTE THEN NoMatch
    ELSE Capture(s, k, RunEnd(s, k + 1, "[^\"]"))

\* braceRegex at position i: the captured value, NoMatch when it does not match
BraceMatchAt(s, field, i) == BraceMatchFrom(s, FieldHeadEnd(s, field, i))

\* quoteRegex at position i
QuoteMatchAt(s, field, i) == QuoteMatchFrom(s, FieldHeadEnd(s, field, i))

\* the expression of one kind at position i
BibtexMatchAt(kind, s, field, i) ==
    IF kind = "brace" THEN BraceMatchAt(s, field, i) ELSE QuoteMatchAt(s, field, i)

\* String.match: the leftmost position at which the expression matches
FirstMatch(s, field, kind) ==
    LET hits == {i \in 1..Len(s) : BibtexMatchAt(kind, s, field, i) # NoMatch}
    IN IF hits = {} THEN NoMatch ELSE BibtexMatchAt(kind, s, field, Min(hits))

\* a || b on match results
OrElse(a, b) == IF a # NoMatch THEN a ELSE b

\* match ? match[1].trim() : null
TrimMatch(match) == IF match = NoMatch THEN NoMatch ELSE trim(match)

\* extractField of bibtexToMetadata: the braced value, else the quoted one
extractField(bibtex, field) ==
    TrimMatch(OrElse(FirstMatch(bibtex, field, "brace"),
                     FirstMatch(bibtex, field, "quote")))

\* the field list of bibtexToMetadata
Fields ==
    <<"author", "title", "year", "publisher", "journal",
      "volume", "number", "pages", "address", "edition",
      "booktitle", "editor", "doi", "isbn", "issn",
      "url", "note", "series", "chapter", "organization",
      "school", "institution", "howpublished", "month">>

\* the field list of metadataToBibtex
FieldOrder ==
    <<"author", "title", "booktitle", "editor", "year",
      "publisher", "address", "edition", "journal", "volume",
      "number", "pages", "chapter", "series", "organization",
      "school", "institution", "howpublished", "month",
      "doi", "isbn", "issn", "url", "note">>

\* lines.join('\n')
RECURSIVE JoinLines(_)
JoinLines(lines) ==
    IF lines = <<>> THEN <<>>
    ELSE IF Len(lines) = 1 THEN lines[1]
         ELSE lines[1] \o <<NL>> \o JoinLines(Tail(lines))

\* (\w+)\{ read after the '@', the run ending at position w
TypeBefore(bibtex, w) ==
    IF w = 2 \/ w > Len(bibtex) \/ bibtex[w] # LBRACE THEN Chars("misc")
    ELSE toLowerCase(SubSeq(bibtex, 2, w - 1))

\* /^@(\w+)\{/ : the entry type in lower case, "misc" without a match
EntryType(bibtex) ==
    IF bibtex = <<>> \/ bibtex[1] # AT THEN Chars("misc")
    ELSE TypeBefore(bibtex, RunEnd(bibtex, 2, "\\w"))

\* the lines of the fields from the i-th of the list on
RECURSIVE FieldLines(_, _)
FieldLines(bibtex, i) ==
    IF i > Len(Fields) THEN <<>>
    ELSE LET value == extractField(bibtex, Chars(Fields[i]))
         IN (IF value # NoMatch /\ value # <<>>
             THEN <<Chars(Fields[i]) \o <<COLON, SP, QUOTE>> \o escapeValue(value) \o <<QUOTE>>>>
             ELSE <<>>)
            \o FieldLines(bibtex, i + 1)

bibtexToMetadata(bibtex) ==
    LET citeKey == extractCiteKey(bibtex)
    IN IF citeKey = MissingCiteKey THEN MissingCiteKey
       ELSE JoinLines(<<Chars("type: ") \o EntryType(bibtex),
                        Chars("citekey: ") \o citeKey>>
                      \o FieldLines(bibtex, 1))

\* line.indexOf(':'), 0 when there is none
ColonIndex(line) == IndexOf(line, <<COLON>>)

\* the key of a metadata line, in lower case
LineKey(line) == toLowerCase(trim(SubSeq(line, 1, ColonIndex(line) - 1)))

\* the value of a metadata line: surrounding quotes removed and the escapes
\* undone
LineValue(line) ==
    LET value == trim(SubSeq(line, ColonIndex(line) + 1, Len(line)))
    IN IF /\ Len(value) >= 2
          /\ \/ value[1] = QUOTE /\ value[Len(value)] = QUOTE
             \/ value[1] = APOS /\ value[Len(value)] = APOS
       THEN unescapeValue(SubSeq(value, 2, Len(value) - 1))
       ELSE value

\* fields[name] after the loop over the lines: the value of the last line
\* with that key, <<>> when there is none
FieldOf(lines, name) ==
    LET hits == {i \in DOMAIN lines : ColonIndex(lines[i]) # 0 /\ LineKey(lines[i]) = name}
    IN IF hits = {} THEN <<>> ELSE LineValue(lines[Max(hits)])

\* the lines `  field = {value},` of the fields from the i-th of the order on
RECURSIVE EntryLines(_, _)
EntryLines(lines, i) ==
    IF i > Len(FieldOrder) THEN <<>>
    ELSE LET value == FieldOf(lines, Chars(FieldOrder[i]))
         IN (IF value # <<>>
             THEN <<<<SP, SP>> \o Chars(FieldOrder[i]) \o <<SP, EQUALS, SP, LBRACE>>
                      \o value \o <<RBRACE, COMMA>>>>
             ELSE <<>>)
            \o EntryLines(lines, i + 1)

metadataToBibtex(metadata) ==
    LET lines == SplitLines(trim(metadata))
        type == FieldOf(lines, Chars("type"))
        citekey == FieldOf(lines, Chars("citekey"))
    IN IF type = <<>> \/ citekey = <<>> THEN NoMatch
       ELSE JoinLines(<<<<AT>> \o type \o <<LBRACE>> \o citekey \o <<COMMA>>>>
                      \o EntryLines(lines, 1) \o <<<<RBRACE>>>>)

\* SpecConvert: an entry in serialized form is converted to a metadata block
\* and back
EntryTypes == {"book", "incollection"}
SampleFields == {"author", "title", "booktitle", "year", "note"}

SampleValue(field) ==
    CASE field = "author" -> Chars("N. T. Wright")
      [] field = "title" -> Chars("Paul")
      [] field = "booktitle" -> Chars("Essays")
      [] field = "year" -> Chars("2013")
      [] OTHER -> Chars("read twice")

\* the entries with at most MaxFields of the sample fields
Entries ==
    {[type |-> t, citekey |-> "Wright2013", fields |-> fs] :
        t \in EntryTypes,
        fs \in {S \in SUBSET SampleFields : Cardinality(S) <= MaxFields}}

\* the lines of the fields of e from the i-th of the order on
RECURSIVE EntryFieldLines(_, _)
EntryFieldLines(e, i) ==
    IF i > Len(FieldOrder) THEN <<>>
    ELSE (IF FieldOrder[i] \in e.fields
          THEN <<<<SP, SP>> \o Chars(FieldOrder[i]) \o <<SP, EQUALS, SP, LBRACE>>
                   \o SampleValue(FieldOrder[i]) \o <<RBRACE, COMMA>>>>
          ELSE <<>>)
         \o EntryFieldLines(e, i + 1)

\* the serialized form of entry e
EntryText(e) ==
    JoinLines(<<<<AT>> \o Chars(e.type) \o <<LBRACE>> \o Chars(e.citekey) \o <<COMMA>>>>
              \o EntryFieldLines(e, 1) \o <<<<RBRACE>>>>)

InitConvert ==
    /\ entry \in Entries
    /\ metaText = Unset
    /\ backText = Unset
    /\ EscapeIdle /\ KeyIdle /\ InlineIdle
    /\ UpsertIdle /\ BibIdle /\ PasteIdle /\ ExtraIdle

ToMetadata ==
    /\ metaText = Unset
    /\ metaText' = bibtexToMetadata(EntryText(entry))
    /\ UNCHANGED <<entry, backText, fieldValue, yamlValue, escStage, keyInput,
                   keyOutput, inlineIn, inlineOut>>
    /\ UNCHANGED <<upsertVars, bibVars, pasteVars, extraVars>>

ToBibtex ==
    /\ metaText # Unset
    /\ backText = Unset
    /\ backText' = metadataToBibtex(metaText)
    /\ UNCHANGED <<entry, metaText, fieldValue, yamlValue, escStage, keyInput,
                   keyOutput, inlineIn, inlineOut>>
    /\ UNCHANGED <<upsertVars, bibVars, pasteVars, extraVars>>

NextConvert == ToMetadata \/ ToBibtex

SpecConvert == InitConvert /\ [][NextConvert]_vars

\* C16: converting an entry with plain values to a metadata block and back
\* gives the entry again: the same type, citekey, fields and values, for
\* every subset of the fields, booktitle without title among them.
ConvertRoundTrip == backText # Unset => backText = EntryText(entry)

\* as C16, for the entries that do not have booktitle without title
ConvertRoundTripButBooktitle ==
    (backText # Unset /\ ("booktitle" \in entry.fields => "title" \in entry.fields))
       => backText = EntryText(entry)

----------------------------------------------------------------------------
(* citation-formatter.ts: formatInlineCitation *)

ENDASH == "<en dash>"
LPAREN == "("
RPAREN == ")"


\* field\s*=\s*[{"]([^}"]+)[}"] at position i: the captured value, NoMatch
\* when it does not match
InlineMatchAt(s, field, i) ==
    LET k == FieldHeadEnd(s, field, i)
    IN IF k = 0 \/ k > Len(s) \/ s[k] \notin {LBRACE, QUOTE} THEN NoMatch
       ELSE LET e == RunEnd(s, k + 1, "[^}\"]")
            IN IF e = k + 1 \/ e > Len(s) THEN NoMatch
               ELSE SubSeq(s, k + 1, e - 1)

\* extractField of formatInlineCitation
extractInlineField(bibtex, field) ==
    LET hits == {i \in 1..Len(bibtex) : InlineMatchAt(bibtex, field, i) # NoMatch}
        match == IF hits = {} THEN NoMatch ELSE InlineMatchAt(bibtex, field, Min(hits))
    IN IF match = NoMatch THEN NoMatch ELSE trim(match)

\* s.split(sep)[0]
BeforeFirst(s, sep) ==
    IF includes(s, sep) THEN SubSeq(s, 1, IndexOf(s, sep) - 1) ELSE s

\* the last part of s.split(' ')
AfterLastSpace(s) ==
    LET sp == {i \in DOMAIN s : s[i] = SP}
    IN IF sp = {} THEN s ELSE SubSeq(s, Max(sp) + 1, Len(s))

\* the last name of the first author
authorLastName(author) ==
    LET authorParts == BeforeFirst(author, Chars(" and "))
    IN IF includes(authorParts, <<COMMA>>)
       THEN trim(BeforeFirst(authorParts, <<COMMA>>))
       ELSE AfterLastSpace(trim(authorParts))

\* as citeKeyCitation, 'pp.' for a page range
citeKeyCitationPlural(citeKey, page) ==
    IF page # <<>>
    THEN citeKey \o <<COMMA, SP>>
           \o (IF includes(page, <<DASH>>) THEN Chars("pp.") ELSE Chars("p."))
           \o <<SP>> \o page
    ELSE citeKey

\* page ? `${citeKey}, p. ${page}` : citeKey
citeKeyCitation(citeKey, page) ==
    IF page # <<>> THEN citeKey \o Chars(", p. ") \o page ELSE citeKey

\* as styleCitation, the year in the mla form too
styleCitationMlaYear(last, year, page, format, citeKey) ==
    CASE format = "apa" ->
            IF page # <<>>
            THEN <<LPAREN>> \o last \o <<COMMA, SP>> \o year \o Chars(", p. ") \o page \o <<RPAREN>>
            ELSE <<LPAREN>> \o last \o <<COMMA, SP>> \o year \o <<RPAREN>>
      [] format = "chicago" ->
            IF page # <<>>
            THEN <<LPAREN>> \o last \o <<SP>> \o year \o <<COMMA, SP>> \o page \o <<RPAREN>>
            ELSE <<LPAREN>> \o last \o <<SP>> \o year \o <<RPAREN>>
      [] format = "mla" ->
            IF page # <<>>
            THEN <<LPAREN>> \o last \o <<SP>> \o year \o <<SP>> \o page \o <<RPAREN>>
            ELSE <<LPAREN>> \o last \o <<SP>> \o year \o <<RPAREN>>
      [] OTHER ->
            IF page # <<>>
            THEN citeKey \o <<COMMA, SP>>
                   \o (IF includes(page, <<DASH>>) \/ includes(page, <<ENDASH>>)
                       THEN Chars("pp.") ELSE Chars("p."))
                   \o <<SP>> \o page
            ELSE citeKey

\* the citation of the selected style
styleCitation(last, year, page, format, citeKey) ==
    CASE format = "apa" ->
            IF page # <<>>
            THEN <<LPAREN>> \o last \o <<COMMA, SP>> \o year \o Chars(", p. ") \o page \o <<RPAREN>>
            ELSE <<LPAREN>> \o last \o <<COMMA, SP>> \o year \o <<RPAREN>>
      [] format = "chicago" ->
            IF page # <<>>
            THEN <<LPAREN>> \o last \o <<SP>> \o year \o <<COMMA, SP>> \o page \o <<RPAREN>>
            ELSE <<LPAREN>> \o last \o <<SP>> \o year \o <<RPAREN>>
      [] format = "mla" ->
            IF page # <<>>
            THEN <<LPAREN>> \o last \o <<SP>> \o page \o <<RPAREN>>
            ELSE <<LPAREN>> \o last \o <<RPAREN>>
      [] OTHER ->
            IF page # <<>>
            THEN citeKey \o <<COMMA, SP>>
                   \o (IF includes(page, <<DASH>>) \/ includes(page, <<ENDASH>>)
                       THEN Chars("pp.") ELSE Chars("p."))
                   \o <<SP>> \o page
            ELSE citeKey

\* page is <<>> for null; a missing field is NoMatch, an empty one <<>>
formatInlineCitation(bibtex, page, format) ==
    LET author == extractInlineField(bibtex, Chars("author"))
        year == extractInlineField(bibtex, Chars("year"))
        citeKey == extractCiteKey(bibtex)
        noAuthor == author = NoMatch \/ author = <<>>
        noYear == year = NoMatch \/ year = <<>>
    IN IF citeKey = MissingCiteKey THEN MissingCiteKey
       ELSE IF noAuthor /\ noYear THEN citeKeyCitation(citeKey, page)
       ELSE LET last == IF noAuthor THEN <<>> ELSE authorLastName(author)
            IN IF last = <<>> \/ noYear THEN citeKeyCitation(citeKey, page)
               ELSE styleCitation(last, year, page, format, citeKey)

\* SpecInline: formatInlineCitation applied to bounded entries, pages and
\* formats
Formats == {"apa", "chicago", "mla", "latex"}

\* author names as written in the entry, with the last name each one has
Names ==
    {[text |-> Chars("Wright, N. T."), last |-> Chars("Wright")],
     [text |-> Chars("Michael F. Bird"), last |-> Chars("Bird")]}

InlinePages == {<<>>, Chars("123"), Chars("145-150"), <<"1", "4", "5", ENDASH, "9">>}
InlineYears == {<<>>, Chars("2013")}
InlineKey == Chars("Wright2013")

\* names.join(' and ')
RECURSIVE JoinAuthors(_)
JoinAuthors(names) ==
    IF names = <<>> THEN <<>>
    ELSE IF Len(names) = 1 THEN names[1].text
         ELSE names[1].text \o Chars(" and ") \o JoinAuthors(Tail(names))

\* the entry text of an input: author and year lines only when present
InlineEntryText(in) ==
    JoinLines(<<<<AT>> \o Chars("book") \o <<LBRACE>> \o InlineKey \o <<COMMA>>>>
              \o (IF in.authors = <<>> THEN <<>>
                  ELSE <<Chars("  author = {") \o JoinAuthors(in.authors) \o Chars("},")>>)
              \o <<Chars("  title = {Paul},")>>
              \o (IF in.year = <<>> THEN <<>>
                  ELSE <<Chars("  year = {") \o in.year \o Chars("},")>>)
              \o <<<<RBRACE>>>>)

InitInline ==
    /\ inlineIn \in [authors : SeqsUpTo(Names, MaxAuthors), year : InlineYears,
                     page : InlinePages, format : Formats]
    /\ inlineOut = Unset
    /\ EscapeIdle /\ KeyIdle /\ ConvertIdle
    /\ UpsertIdle /\ BibIdle /\ PasteIdle /\ ExtraIdle

FormatInline ==
    /\ inlineOut = Unset
    /\ inlineOut' = formatInlineCitation(InlineEntryText(inlineIn), inlineIn.page,
                                         inlineIn.format)
    /\ UNCHANGED <<inlineIn, fieldValue, yamlValue, escStage, keyInput, keyOutput,
                   entry, metaText, backText>>
    /\ UNCHANGED <<upsertVars, bibVars, pasteVars, extraVars>>

NextInline == FormatInline

SpecInline == InitInline /\ [][NextInline]_vars

\* the citation has been formatted
Formatted == inlineOut # Unset

\* C18: with an author and a year, apa gives '(Last, Year)' or
\* '(Last, Year, p. Page)', chicago '(Last Year)' or '(Last Year, Page)', mla
\* '(Last)' or '(Last Page)'; the mla form holds neither 'p.', 'pp.' nor the
\* year.
InlineStyleForms ==
    (Formatted /\ inlineIn.authors # <<>> /\ inlineIn.year # <<>>)
       => LET last == inlineIn.authors[1].last
              year == inlineIn.year
              page == inlineIn.page
          IN /\ inlineIn.format = "apa" =>
                   inlineOut = IF page = <<>>
                               THEN Chars("(") \o last \o Chars(", ") \o year \o Chars(")")
                               ELSE Chars("(") \o last \o Chars(", ") \o year
                                      \o Chars(", p. ") \o page \o Chars(")")
             /\ inlineIn.format = "chicago" =>
                   inlineOut = IF page = <<>>
                               THEN Chars("(") \o last \o Chars(" ") \o year \o Chars(")")
                               ELSE Chars("(") \o last \o Chars(" ") \o year
                                      \o Chars(", ") \o page \o Chars(")")
             /\ inlineIn.format = "mla" =>
                   /\ inlineOut = IF page = <<>>
                                  THEN Chars("(") \o last \o Chars(")")
                                  ELSE Chars("(") \o last \o Chars(" ") \o page \o Chars(")")
                   /\ ~includes(inlineOut, Chars("p."))
                   /\ ~includes(inlineOut, year)

\* an mla citation with a page, of an entry with two authors and a year
InlineStyleFormsWitness ==
    /\ Formatted
    /\ inlineIn.format = "mla"
    /\ Len(inlineIn.authors) = 2
    /\ inlineIn.authors[1].last = Chars("Bird")
    /\ inlineIn.year = Chars("2013")
    /\ inlineIn.page = Chars("123")
    /\ inlineOut = Chars("(Bird 123)")

\* C19: without author and year every style gives the citekey alone, or
\* '<citeKey>, p. <page>' when there is a page.
InlineFallback ==
    (Formatted /\ inlineIn.authors = <<>> /\ inlineIn.year = <<>>)
       => inlineOut = IF inlineIn.page = <<>> THEN InlineKey
                      ELSE InlineKey \o Chars(", p. ") \o inlineIn.page

\* an apa citation of a page range, of an entry without author and year
InlineFallbackWitness ==
    /\ Formatted
    /\ inlineIn.format = "apa"
    /\ inlineIn.authors = <<>>
    /\ inlineIn.year = <<>>
    /\ inlineIn.page = Chars("145-150")
    /\ inlineOut = Chars("Wright2013, p. 145-150")

\* C20: a citation in the citekey form 'citeKey, <label> <page>' has the
\* label 'pp.' when the page holds a hyphen or an en dash, else 'p.'.
CiteKeyFormLabel ==
    (Formatted /\ IsPrefix(InlineKey \o Chars(", "), inlineOut))
       => LET page == inlineIn.page
              label == IF includes(page, <<DASH>>) \/ includes(page, <<ENDASH>>)
                       THEN Chars("pp.") ELSE Chars("p.")
          IN inlineOut = InlineKey \o Chars(", ") \o label \o Chars(" ") \o page

\* as C20, for the latex style of an entry with author and year
CiteKeyFormLabelLatex ==
    (Formatted /\ inlineIn.format = "latex" /\ inlineIn.authors # <<>>
       /\ inlineIn.year # <<>> /\ inlineIn.page # <<>>)
       => LET page == inlineIn.page
              label == IF includes(page, <<DASH>>) \/ includes(page, <<ENDASH>>)
                       THEN Chars("pp.") ELSE Chars("p.")
          IN inlineOut = InlineKey \o Chars(", ") \o label \o Chars(" ") \o page

----------------------------------------------------------------------------
(* clipboard-parser.ts: parseLogosClipboard *)


\* the positions of the newlines that '@' follows: where split(/\n(?=@)/) cuts
SplitPoints(clipboard) ==
    {i \in 1..(Len(clipboard) - 1) : clipboard[i] = NL /\ clipboard[i + 1] = AT}

\* \{([^}]+)\} read from position k: the captured page
PageMatchFrom(s, k) ==
    IF k = 0 \/ k > Len(s) \/ s[k] # LBRACE \/ k + 1 > Len(s) \/ s[k + 1] = RBRACE
    THEN NoMatch
    ELSE Capture(s, k, RunEnd(s, k + 1, "[^}]"))

\* pages\s*=\s*\{([^}]+)\} at position i: the captured page, NoMatch when it
\* does not match
PageMatchAt(s, field, i) == PageMatchFrom(s, FieldHeadEnd(s, field, i))

\* ,?\s*\n? read after the closing brace at position e: the position after
\* it, 0 when there is no closing brace
PagesFieldTail(s, e) ==
    IF e > Len(s) THEN 0
    ELSE RunEnd(s, IF e + 1 <= Len(s) /\ s[e + 1] = COMMA THEN e + 2 ELSE e + 1, "\\s")

\* \{[^}]*\},?\s*\n? read from position k
PagesFieldFrom(s, k) ==
    IF k = 0 \/ k > Len(s) \/ s[k] # LBRACE THEN 0
    ELSE PagesFieldTail(s, RunEnd(s, k + 1, "[^}]"))

\* pages\s*=\s*\{[^}]*\},?\s*\n? at position i: the position after the match,
\* 0 when it does not match
PagesFieldEnd(s, i) == PagesFieldFrom(s, FieldHeadEnd(s, Chars("pages"), i))

\* bibtex.replace(/pages\s*=\s*\{[^}]*\},?\s*\n?/gi, "")
RECURSIVE RemovePages(_)
RemovePages(s) ==
    IF s = <<>> THEN <<>>
    ELSE IF PagesFieldEnd(s, 1) # 0
         THEN RemovePages(SubSeq(s, PagesFieldEnd(s, 1), Len(s)))
         ELSE <<s[1]>> \o RemovePages(Tail(s))

\* the smallest of the positions, the position after the text when there
\* is none
CutOrEnd(clipboard, cuts) == IF cuts = {} THEN Len(clipboard) + 1 ELSE Min(cuts)

\* parts[0] and parts[1] for the split points cuts, the first of them at
\* position first
PartsAt(clipboard, cuts, first) ==
    <<SubSeq(clipboard, 1, first - 1),
      SubSeq(clipboard, first + 1, CutOrEnd(clipboard, {i \in cuts : i > first}) - 1)>>

\* clipboard.split(/\n(?=@)/): the first two parts, the second one <<>> when
\* there is no split point
SplitEntry(clipboard) ==
    PartsAt(clipboard, SplitPoints(clipboard), CutOrEnd(clipboard, SplitPoints(clipboard)))

\* bibtex.match(/pages\s*=\s*\{([^}]+)\}/i): the captured page, <<>> for null
PageOf(bibtex) ==
    LET hits == {i \in 1..Len(bibtex) : PageMatchAt(bibtex, Chars("pages"), i) # NoMatch}
    IN IF hits = {} THEN <<>> ELSE PageMatchAt(bibtex, Chars("pages"), Min(hits))

\* the result for the trimmed parts
ParsedParts(mainText, bibtex) ==
    [mainText |-> mainText, bibtex |-> RemovePages(bibtex), page |-> PageOf(bibtex)]

\* the two parts trimmed
TrimParts(parts) == ParsedParts(trim(parts[1]), trim(parts[2]))

\* page is <<>> for null
parseLogosClipboard(clipboard) == TrimParts(SplitEntry(clipboard))

\* the characters of s as one string
RECURSIVE JoinChars(_)
JoinChars(s) == IF s = <<>> THEN "" ELSE s[1] \o JoinChars(Tail(s))

\* what Logos puts on the clipboard: the quoted text, then the entry
ClipText == Chars("By grace")

ClipEntry(key, page) ==
    <<AT>> \o Chars("book{") \o Chars(key) \o <<COMMA, NL>>
      \o Chars("  title = {T},") \o <<NL>>
      \o (IF page = <<>> THEN <<>> ELSE Chars("  pages = {") \o page \o Chars("},") \o <<NL>>)
      \o <<RBRACE>>

\* the pages of the clipboards of each cite key: none and one page, or none
\* and a page range
ClipPages(key) ==
    IF key = "Smith" THEN {pg \in Pages : Len(pg) # 1} ELSE {pg \in Pages : Len(pg) <= 1}

\* clipboards with an entry, and clipboards without an entry header: no '@'
\* line, the entry on the first line, a header without brace and comma
GoodClipboards ==
    UNION {{ClipText \o <<NL>> \o ClipEntry(k, pg) : pg \in ClipPages(k)} :
              k \in CiteKeys}

BadClipboards ==
    {ClipText,
     ClipEntry("Key", <<>>),
     ClipText \o <<NL, AT>> \o Chars("book Key")}

Clipboards == GoodClipboards \cup BadClipboards

\* parseLogosClipboard over the clipboards of the model, computed once
Parsed == [c \in Clipboards |-> parseLogosClipboard(c)]

\* a cite key as a string, NoKey when extractCiteKey throws
KeyString(citeKey) == IF citeKey = MissingCiteKey THEN NoKey ELSE JoinChars(citeKey)

\* the cite key of each clipboard of the table
CiteKeysOf(parsed) == [c \in DOMAIN parsed |-> KeyString(extractCiteKey(parsed[c].bibtex))]

\* extractCiteKey over the clipboards of the model, computed once
CiteKeyTable == CiteKeysOf(Parsed)

\* bibtexToMetadata(bibtexWithoutPages) over the entries of the clipboards of
\* the model, computed once
MetadataTable ==
    [b \in {r.bibtex : r \in Range(Parsed)} |-> bibtexToMetadata(RemovePages(b))]

\* metadataToBibtex over the metadata blocks of those entries, computed once
BibtexTable == [m \in Range(MetadataTable) |-> metadataToBibtex(m)]

\* table[x] where the table has it, else the value computed now
TableOr(table, x, value) == IF x \in DOMAIN table THEN table[x] ELSE value

----------------------------------------------------------------------------
(* The paste-logos-reference command.  Each action runs the code from one  *)
(* await to the next.                                                      *)

\* as NextCounter, an existing counter left as it is
NextCounterStuck(c) == IF c = 0 THEN 1 ELSE c

\* counters[notePath]: 1 for a key not yet present, else the value plus one
NextCounter(c) == IF c = 0 THEN 1 ELSE c + 1

\* `${citeKey.replace(' ','-')}-${counters[notePath]}`; the cite keys of the model
\* hold no space
BlockId(citeKey, c) == citeKey \o "-" \o ToString(c)

\* `[[${file.basename}#^${blockId}]]${page ? ` → p. ${page}` : ''}`
LinkBack(path, blockId, page) ==
    <<LinkTo(BaseName(path), blockId)>>
      \o (IF page = <<>> THEN <<>> ELSE <<PageMark>> \o page)

\* the body createOrUpdateReferenceNote gives a new reference note: the
\* metadata of the entry without its pages field, then the Citations section
NewRefBody(bibtex, linkBack) ==
    Rule \o <<NL>> \o MetadataTable[bibtex] \o <<NL>> \o Rule
      \o <<NL, NL>> \o CitationsHeading \o <<NL, DASH, SP>> \o linkBack

\* the Notice a paste shows when it ends; a paste that ends by throwing out
\* of the callback shows none
PasteNotice(result, key) ==
    CASE result = "updated" -> "Reference note updated: " \o RefPath(key)
      [] result = "error" -> "Error creating reference note"
      [] OTHER -> ""

Finish(p, result) ==
    /\ pc' = [pc EXCEPT ![p] = "idle"]
    /\ loc' = [loc EXCEPT ![p] = NoLoc]
    /\ lastResult' = result
    /\ notice' = PasteNotice(result, loc[p].key)

\* the command is invoked on the note in the active editor and awaits
\* navigator.clipboard.readText(), which will give clipboard
PasteStart(p, path, clipboard) ==
    /\ pc[p] = "idle"
    /\ started < MaxPastes
    /\ started' = started + 1
    /\ pc' = [pc EXCEPT ![p] = "clip"]
    /\ loc' = [loc EXCEPT ![p] = [NoLoc EXCEPT !.note = path, !.clip = clipboard]]
    /\ notice' = ""
    /\ UNCHANGED <<counters, saved, callouts, refKind, refBody, folderMade,
                   minted, session, lastResult, exported, children>>
    /\ UNCHANGED <<upsertVars, bibVars, textVars>>

\* as ClipboardRead, the counter incremented before the cite key is extracted
ClipboardReadCountsFirst(p, citeKey, page) ==
    /\ pc[p] = "clip"
    /\ LET notePath == FileName(loc[p].note)
           c == NextCounter(counters[notePath])
           newCounters == [counters EXCEPT ![notePath] = c]
       IN /\ counters' = newCounters
          /\ IF citeKey = NoKey
             THEN /\ Finish(p, "missingCiteKey")
                  /\ UNCHANGED minted
             ELSE /\ minted' = Append(minted, [note |-> loc[p].note,
                                               blockId |-> BlockId(citeKey, c),
                                               ctr |-> c, session |-> session])
                  /\ loc' = [loc EXCEPT ![p] = [@ EXCEPT !.key = citeKey, !.page = page,
                                                         !.ctr = c, !.snap = newCounters]]
                  /\ pc' = [pc EXCEPT ![p] = "save"]
                  /\ UNCHANGED <<lastResult, notice>>
    /\ UNCHANGED <<saved, callouts, refKind, refBody, folderMade, started, session,
                   exported, children>>
    /\ UNCHANGED <<upsertVars, bibVars, textVars>>

\* as ClipboardRead, the counter read in one step and written in the next, the
\* other commands running in between
ClipboardReadSplit(p, citeKey, page) ==
    /\ pc[p] = "clip"
    /\ IF citeKey = NoKey
       THEN /\ Finish(p, "missingCiteKey")
            /\ UNCHANGED <<counters, minted>>
       ELSE LET notePath == FileName(loc[p].note)
                c == loc[p].ctr
                newCounters == [counters EXCEPT ![notePath] = c]
            IN IF c = 0
               THEN /\ loc' = [loc EXCEPT ![p].ctr = NextCounter(counters[notePath])]
                    /\ UNCHANGED <<counters, minted, pc, lastResult, notice>>
               ELSE /\ counters' = newCounters
                    /\ minted' = Append(minted, [note |-> loc[p].note,
                                                 blockId |-> BlockId(citeKey, c),
                                                 ctr |-> c, session |-> session])
                    /\ loc' = [loc EXCEPT ![p] = [@ EXCEPT !.key = citeKey, !.page = page,
                                                           !.snap = newCounters]]
                    /\ pc' = [pc EXCEPT ![p] = "save"]
                    /\ UNCHANGED <<lastResult, notice>>
    /\ UNCHANGED <<saved, callouts, refKind, refBody, folderMade, started, session,
                   exported, children>>
    /\ UNCHANGED <<upsertVars, bibVars, textVars>>

\* the clipboard is read; extractCiteKey throws when it finds no key, else the
\* counter is incremented, the block id built and saveSettings() called
ClipboardRead(p, citeKey, page) ==
    /\ pc[p] = "clip"
    /\ IF citeKey = NoKey
       THEN /\ Finish(p, "missingCiteKey")
            /\ UNCHANGED <<counters, minted>>
       ELSE LET notePath == FileName(loc[p].note)
                c == NextCounter(counters[notePath])
                newCounters == [counters EXCEPT ![notePath] = c]
            IN /\ counters' = newCounters
               /\ minted' = Append(minted, [note |-> loc[p].note,
                                            blockId |-> BlockId(citeKey, c),
                                            ctr |-> c, session |-> session])
               /\ loc' = [loc EXCEPT ![p] = [@ EXCEPT !.key = citeKey, !.page = page,
                                                      !.ctr = c, !.snap = newCounters]]
               /\ pc' = [pc EXCEPT ![p] = "save"]
               /\ UNCHANGED <<lastResult, notice>>
    /\ UNCHANGED <<saved, callouts, refKind, refBody, folderMade, started, session,
                   exported, children>>
    /\ UNCHANGED <<upsertVars, bibVars, textVars>>

\* as SaveSettingsDone, the command going on before the settings are written
SaveSettingsNotAwaited(p) ==
    /\ pc[p] = "save"
    /\ pc' = [pc EXCEPT ![p] = "saved"]
    /\ UNCHANGED <<counters, saved, callouts, refKind, refBody, folderMade, loc,
                   minted, started, session, lastResult, notice, exported, children>>
    /\ UNCHANGED <<upsertVars, bibVars, textVars>>

\* saveData writes the settings it was given
SaveSettingsDone(p) ==
    /\ pc[p] = "save"
    /\ saved' = loc[p].snap
    /\ pc' = [pc EXCEPT ![p] = "saved"]
    /\ UNCHANGED <<counters, callouts, refKind, refBody, folderMade, loc,
                   minted, started, session, lastResult, notice, exported, children>>
    /\ UNCHANGED <<upsertVars, bibVars, textVars>>

\* saveData rejects: the callback ends with the rejection
SaveSettingsFail(p) ==
    /\ pc[p] = "save"
    /\ Finish(p, "saveFailed")
    /\ UNCHANGED <<counters, saved, callouts, refKind, refBody, folderMade,
                   minted, started, session, exported, children>>
    /\ UNCHANGED <<upsertVars, bibVars, textVars>>

\* after saveSettings: the callout is inserted, then
\* createOrUpdateReferenceNote runs up to its first await
InsertCallout(p) ==
    /\ pc[p] = "saved"
    /\ LET path == loc[p].note
           key == loc[p].key
           blockId == BlockId(key, loc[p].ctr)
           linkBack == LinkBack(path, blockId, loc[p].page)
           bibtex == Parsed[loc[p].clip].bibtex
       IN /\ callouts' = [callouts EXCEPT ![path] =
                             Append(@, [target |-> RefPath(key), blockId |-> blockId])]
          /\ CASE refKind[key] = "none" /\ ~folderMade ->
                    /\ pc' = [pc EXCEPT ![p] = "createFolder"]
                    /\ UNCHANGED <<loc, lastResult, notice>>
               [] refKind[key] = "none" /\ folderMade ->
                    /\ pc' = [pc EXCEPT ![p] = "create"]
                    /\ loc' = [loc EXCEPT ![p].body = NewRefBody(bibtex, linkBack)]
                    /\ UNCHANGED <<lastResult, notice>>
               [] refKind[key] = "file" ->
                    /\ pc' = [pc EXCEPT ![p] = "read"]
                    /\ UNCHANGED <<loc, lastResult, notice>>
               [] OTHER ->
                    \* not a TFile: "Could not read ...: not a valid file"
                    Finish(p, "error")
    /\ UNCHANGED <<counters, saved, refKind, refBody, folderMade, minted, started,
                   session, exported, children>>
    /\ UNCHANGED <<upsertVars, bibVars, textVars>>

\* vault.createFolder returns; vault.create is called with the new body
CreateFolderDone(p) ==
    /\ pc[p] = "createFolder"
    /\ IF folderMade
       THEN /\ Finish(p, "error")
            /\ UNCHANGED folderMade
       ELSE /\ folderMade' = TRUE
            /\ pc' = [pc EXCEPT ![p] = "create"]
            /\ loc' = [loc EXCEPT ![p].body =
                          NewRefBody(Parsed[loc[p].clip].bibtex,
                                     LinkBack(loc[p].note,
                                              BlockId(loc[p].key, loc[p].ctr),
                                              loc[p].page))]
            /\ UNCHANGED <<lastResult, notice>>
    /\ UNCHANGED <<counters, saved, callouts, refKind, refBody, minted, started,
                   session, exported, children>>
    /\ UNCHANGED <<upsertVars, bibVars, textVars>>

\* vault.create returns: it throws when the path is taken
CreateDone(p) ==
    /\ pc[p] = "create"
    /\ IF refKind[loc[p].key] # "none"
       THEN /\ Finish(p, "error")
            /\ UNCHANGED <<refKind, refBody, children>>
       ELSE /\ refKind' = [refKind EXCEPT ![loc[p].key] = "file"]
            /\ refBody' = [refBody EXCEPT ![loc[p].key] = loc[p].body]
            /\ children' = Append(children, loc[p].key)
            /\ Finish(p, "updated")
    /\ UNCHANGED <<counters, saved, callouts, folderMade, minted, started, session,
                   exported>>
    /\ UNCHANGED <<upsertVars, bibVars, textVars>>

\* vault.read returns the body; the new body is computed and vault.modify called
ReadDone(p) ==
    /\ pc[p] = "read"
    /\ LET linkBack == LinkBack(loc[p].note, BlockId(loc[p].key, loc[p].ctr),
                                loc[p].page)
       IN loc' = [loc EXCEPT ![p].body = upsertCitation(refBody[loc[p].key], linkBack)]
    /\ pc' = [pc EXCEPT ![p] = "modify"]
    /\ UNCHANGED <<counters, saved, callouts, refKind, refBody, folderMade,
                   minted, started, session, lastResult, notice, exported, children>>
    /\ UNCHANGED <<upsertVars, bibVars, textVars>>

\* vault.modify returns
ModifyDone(p) ==
    /\ pc[p] = "modify"
    /\ refBody' = [refBody EXCEPT ![loc[p].key] = loc[p].body]
    /\ Finish(p, "updated")
    /\ UNCHANGED <<counters, saved, callouts, refKind, folderMade, minted, started,
                   session, exported, children>>
    /\ UNCHANGED <<upsertVars, bibVars, textVars>>

\* a vault call of createOrUpdateReferenceNote rejects: caught, a Notice shown
VaultCallFails(p) ==
    /\ pc[p] \in {"createFolder", "create", "read", "modify"}
    /\ Finish(p, "error")
    /\ UNCHANGED <<counters, saved, callouts, refKind, refBody, folderMade,
                   minted, started, session, exported, children>>
    /\ UNCHANGED <<upsertVars, bibVars, textVars>>

\* onload: loadSettings replaces the settings in memory by what saveData
\* last wrote (a load that finds them equal changes nothing and is left out)
Reload ==
    /\ \A q \in Procs : pc[q] = "idle"
    /\ session < MaxReloads
    /\ counters # saved
    /\ session' = session + 1
    /\ counters' = saved
    /\ UNCHANGED <<saved, callouts, refKind, refBody, folderMade, pc, loc,
                   minted, started, lastResult, notice, exported, children>>
    /\ UNCHANGED <<upsertVars, bibVars, textVars>>

----------------------------------------------------------------------------
(* The export-all-references command *)

\* no file at exported-references.bib
NoFile == <<"<no file>">>

\* content.match(/^---\n([\s\S]*?)\n---/): the text between the rules,
\* NoMatch when the note has no such header
HeaderMatch(content) ==
    IF ~IsPrefix(Rule \o <<NL>>, content) THEN NoMatch
    ELSE LET ends == {j \in 5..Len(content) : MatchesAt(content, <<NL>> \o Rule, j)}
         IN IF ends = {} THEN NoMatch ELSE SubSeq(content, 5, Min(ends) - 1)

\* content.match(/```bibtex\n([\s\S]*?)\n```/): the text inside the fence,
\* NoMatch when the note has no fenced entry
FenceMatch(content) ==
    LET opens == {i \in 1..(Len(content) - 1) :
                     content[i] = FENCE \o "bibtex" /\ content[i + 1] = NL}
    IN IF opens = {} THEN NoMatch
       ELSE LET i == Min(opens)
                ends == {j \in (i + 2)..(Len(content) - 1) :
                            content[j] = NL /\ content[j + 1] \in {FENCE, FENCE \o "bibtex"}}
            IN IF ends = {} THEN NoMatch ELSE SubSeq(content, i + 2, Min(ends) - 1)

\* the fenced entry trimmed
FencedEntry(bibtexMatch) == IF bibtexMatch = NoMatch THEN NoMatch ELSE trim(bibtexMatch)

\* the header converted
HeaderEntry(metadataMatch) ==
    IF metadataMatch = NoMatch THEN NoMatch
    ELSE TableOr(BibtexTable, metadataMatch, metadataToBibtex(metadataMatch))

\* the entry collectReferencesFromFolder takes from one note: the header
\* converted, else the fenced entry, NoMatch when the note has neither
FolderEntry(content) ==
    OrElse(HeaderEntry(HeaderMatch(content)), FencedEntry(FenceMatch(content)))

\* bibtexEntries.push(e) when the note has an entry
PushEntry(e) == IF e = NoMatch THEN <<>> ELSE <<e>>

\* the entries of the notes among the given items of the folder, in order
RECURSIVE FolderEntries(_)
FolderEntries(files) ==
    IF files = <<>> THEN <<>>
    ELSE PushEntry(IF refKind[files[1]] = "file"
                   THEN FolderEntry(refBody[files[1]]) ELSE NoMatch)
         \o FolderEntries(Tail(files))

\* bibtexEntries.join('\n\n')
RECURSIVE JoinEntries(_)
JoinEntries(entries) ==
    IF Len(entries) = 1 THEN entries[1]
    ELSE entries[1] \o <<NL, NL>> \o JoinEntries(Tail(entries))

\* the command: it runs when no paste is running; writeOk tells whether the
\* vault accepts the write of the export file
ExportAllReferences(writeOk) ==
    /\ \A q \in Procs : pc[q] = "idle"
    /\ started < MaxPastes
    /\ started' = started + 1
    /\ IF ~folderMade
       THEN \* collectReferencesFromFolder throws, the command catches
            /\ notice' = "Error exporting references: Reference folder not found"
            /\ lastResult' = "exportError"
            /\ UNCHANGED exported
       ELSE \E bibtexEntries \in {FolderEntries(children)} :
               IF bibtexEntries = <<>>
               THEN /\ notice' = "No BibTeX references found in the reference folder."
                    /\ lastResult' = "exportEmpty"
                    /\ UNCHANGED exported
               ELSE IF writeOk
                    THEN /\ exported' = JoinEntries(bibtexEntries)
                         /\ notice' = IF exported = NoFile
                                      THEN "Created exported-references.bib"
                                      ELSE "Updated exported-references.bib"
                         /\ lastResult' = "exported"
                    ELSE /\ notice' = "Error exporting references"
                         /\ lastResult' = "exportError"
                         /\ UNCHANGED exported
    /\ UNCHANGED <<counters, saved, callouts, refKind, refBody, folderMade, pc, loc,
                   minted, session, children>>
    /\ UNCHANGED <<upsertVars, bibVars, textVars>>

PasteStep(p) ==
    \/ ClipboardRead(p, CiteKeyTable[loc[p].clip], Parsed[loc[p].clip].page)
    \/ SaveSettingsDone(p)
    \/ SaveSettingsFail(p)
    \/ InsertCallout(p)
    \/ CreateFolderDone(p)
    \/ CreateDone(p)
    \/ ReadDone(p)
    \/ ModifyDone(p)
    \/ VaultCallFails(p)

----------------------------------------------------------------------------
(* SpecPaste: commands run one after the other (the host serializes the   *)
(* commands)                                                               *)

InitPaste ==
    /\ counters = [n \in FileNames |-> 0]
    /\ saved = [n \in FileNames |-> 0]
    /\ callouts = [n \in ContentNotes |-> <<>>]
    /\ refKind \in {[k \in CiteKeys |-> IF k = "Smith" THEN x ELSE "none"] :
                      x \in {"none", "file", "folder"}}
    /\ refBody = [k \in CiteKeys |-> IF refKind[k] = "file" THEN LegacyBody ELSE <<>>]
    /\ folderMade = (refKind["Smith"] # "none")
    /\ children = IF refKind["Smith"] # "none" THEN <<"Smith">> ELSE <<>>
    /\ exported = NoFile
    /\ pc = [p \in Procs |-> "idle"]
    /\ loc = [p \in Procs |-> NoLoc]
    /\ minted = <<>>
    /\ started = 0
    /\ session = 0
    /\ lastResult = "none"
    /\ notice = ""
    /\ BibIdle
    /\ TextIdle
    /\ refNote = <<>> /\ prevNote = <<>> /\ origNote = <<>> /\ hist = <<>>

\* one invocation at a time: the first process runs them all
NextPaste ==
    \/ /\ \A q \in Procs : pc[q] = "idle"
       /\ \E n \in ContentNotes, c \in Clipboards : PasteStart(1, n, c)
    \/ PasteStep(1)
    \/ Reload
    \/ \E ok \in BOOLEAN : ExportAllReferences(ok)

SpecPaste == InitPaste /\ [][NextPaste]_vars

----------------------------------------------------------------------------
(* SpecOverlap: the host lets two paste commands overlap; every vault call *)
(* and every saveData succeeds unless the vault refuses it                 *)

InitOverlap ==
    /\ InitPaste
    /\ refKind["Smith"] # "folder"

OverlapStep(p) ==
    \/ ClipboardRead(p, CiteKeyTable[loc[p].clip], Parsed[loc[p].clip].page)
    \/ SaveSettingsDone(p)
    \/ InsertCallout(p)
    \/ CreateFolderDone(p)
    \/ CreateDone(p)
    \/ ReadDone(p)
    \/ ModifyDone(p)

NextOverlap ==
    \E p \in Procs :
        \/ \E n \in ContentNotes, c \in GoodClipboards : PasteStart(p, n, c)
        \/ OverlapStep(p)

SpecOverlap == InitOverlap /\ [][NextOverlap]_vars

----------------------------------------------------------------------------
(* Properties of the paste command *)

NoDuplicates(seq) == \A i, j \in DOMAIN seq : seq[i] = seq[j] => i = j

\* the linkBack of the paste that process p is running
LinkBackOf(p) ==
    LinkBack(loc[p].note, BlockId(loc[p].key, loc[p].ctr), loc[p].page)

MintedIdsDistinct ==
    \A i, j \in DOMAIN minted :
        (i < j /\ minted[i].note = minted[j].note)
           => minted[i].blockId # minted[j].blockId

\* the block identifiers written into content note n
WrittenIds(n) == [i \in DOMAIN callouts[n] |-> callouts[n][i].blockId]

\* C8 (amended): the block identifiers minted for one content note between
\* two loads of the settings are pairwise different, whether or not the paste
\* that minted one went on to write it; and a paste never mints an identifier
\* that is already written in the note, so the identifiers written in a note
\* are pairwise different.
MintedIdsFresh ==
    /\ [](\A i, j \in DOMAIN minted :
            (i < j /\ minted[i].note = minted[j].note
                   /\ minted[i].session = minted[j].session)
               => minted[i].blockId # minted[j].blockId)
    /\ [](\A n \in ContentNotes : NoDuplicates(WrittenIds(n)))
    /\ [][Len(minted') > Len(minted)
            => Last(minted').blockId \notin Range(WrittenIds(Last(minted').note))]_vars

\* a paste that failed after the increment (its identifier is in no note),
\* retried on the same note with the same entry and written
MintedIdsFreshWitness ==
    /\ Len(minted) = 2
    /\ minted[1].note = minted[2].note
    /\ minted[1].session = minted[2].session
    /\ \A q \in Procs : pc[q] = "idle"
    /\ minted[1].blockId = BlockId("Key", 1)
    /\ minted[2].blockId = BlockId("Key", 2)
    /\ WrittenIds(minted[2].note) = <<minted[2].blockId>>

\* C9: the first paste into a content note uses counter 1, every later paste
\* into that note uses the value of the paste before it plus one, and no value
\* is used twice for one note (stated for the runs in which the settings are
\* loaded once).
CounterStartsAtOneStepsByOne ==
    session = 0 =>
    \A i \in DOMAIN minted :
        LET earlier == {j \in 1..(i - 1) : minted[j].note = minted[i].note}
        IN /\ IF earlier = {} THEN minted[i].ctr = 1
              ELSE minted[i].ctr = minted[Max(earlier)].ctr + 1
           /\ \A j \in earlier : minted[j].ctr # minted[i].ctr

\* C10: whenever a step of a paste changes a content note, a reference note
\* or the reference folder, the counter of that paste has been incremented
\* and written by saveSettings before.
SavedBeforeNoteWrites ==
    [][\A p \in Procs :
          (/\ pc'[p] # pc[p]
           /\ \/ callouts' # callouts
              \/ refBody' # refBody
              \/ refKind' # refKind
              \/ folderMade' # folderMade)
          => /\ loc[p].ctr >= 1
             /\ counters[FileName(loc[p].note)] >= loc[p].ctr
             /\ saved[FileName(loc[p].note)] >= loc[p].ctr]_vars

\* a paste that has inserted its callout and updated the reference note
SavedBeforeNoteWritesWitness ==
    /\ \A q \in Procs : pc[q] = "idle"
    /\ lastResult = "updated"
    /\ Len(callouts["b/Note.md"]) = 1
    /\ Len(CitationList(refBody["Smith"])) = 1
    /\ saved["Note.md"] = 1

\* C11: a paste whose clipboard gives no entry header ends at the reading of
\* the clipboard and leaves the content notes, the reference notes, the
\* reference folder and the counters, in memory and saved, as they were.
MissingKeyWritesNothing ==
    [][\A p \in Procs :
          (pc[p] = "clip" /\ pc'[p] # "clip" /\ loc[p].clip \in BadClipboards)
             => /\ pc'[p] = "idle"
                /\ lastResult' = "missingCiteKey"
                /\ UNCHANGED <<counters, saved, callouts, refKind, refBody,
                               folderMade, children, minted>>]_vars

\* a paste that wrote its callout and its reference note, then a paste that
\* found no cite key
MissingKeyWritesNothingWitness ==
    /\ \A q \in Procs : pc[q] = "idle"
    /\ lastResult = "missingCiteKey"
    /\ started = 2
    /\ counters["Note.md"] = 1
    /\ saved["Note.md"] = 1
    /\ Len(callouts["a/Note.md"]) = 1
    /\ refKind["Key"] = "file"

\* C12: a command that ended on a fatal condition (no cite key, a failed
\* reference-note step, a missing reference folder or a failed export write)
\* has shown a Notice.
NoticeOnFatalEnd ==
    (/\ \A q \in Procs : pc[q] = "idle"
     /\ lastResult \in {"missingCiteKey", "error", "exportError"})
       => notice # ""

\* as C12, for the conditions the commands catch
NoticeOnCaughtEnd ==
    (/\ \A q \in Procs : pc[q] = "idle"
     /\ lastResult \in {"error", "exportError"})
       => notice # ""

\* the key of the reference note a callout links to
KeyOfTarget(target) == CHOOSE k \in CiteKeys : RefPath(k) = target

\* the reference note of callout c of content note n lists the block of c
Listed(n, c) ==
    /\ refKind[KeyOfTarget(c.target)] = "file"
    /\ \E l \in Range(CitationList(refBody[KeyOfTarget(c.target)])) :
          l[1] = LinkTo(BaseName(n), c.blockId)

\* C13: a paste that ended is all or nothing: when it reports the reference
\* note as updated, its callout is in the content note and its line in the
\* reference note; when its reference-note step failed, its callout is not in
\* the content note.
PasteAllOrNothing ==
    (/\ \A q \in Procs : pc[q] = "idle"
     /\ lastResult \in {"updated", "error"})
       => LET m == Last(minted)
              written == {i \in DOMAIN callouts[m.note] :
                             callouts[m.note][i].blockId = m.blockId}
          IN IF lastResult = "updated"
             THEN \E i \in written : Listed(m.note, callouts[m.note][i])
             ELSE written = {}

\* as C13, for the pastes that report the reference note as updated
PasteUpdatedBoth ==
    (/\ \A q \in Procs : pc[q] = "idle"
     /\ lastResult = "updated")
       => LET m == Last(minted)
          IN \E i \in DOMAIN callouts[m.note] :
                /\ callouts[m.note][i].blockId = m.blockId
                /\ Listed(m.note, callouts[m.note][i])

\* C14: when overlapping pastes have ended, the reference note of every
\* callout written lists the block of that callout: no line is lost and no
\* create has failed.
OverlapKeepsEveryLine ==
    (\A q \in Procs : pc[q] = "idle")
       => \A n \in ContentNotes : \A i \in DOMAIN callouts[n] : Listed(n, callouts[n][i])

----------------------------------------------------------------------------
(* formatBibliographyEntry: the APA and Chicago forms of an entry, for the *)
(* entry types 'book' and the generic form of the other types; the entries *)
(* of the model are of type book or misc.                                  *)

\* a field the code treats as present: matched and not empty
Present(v) == v # NoMatch /\ v # <<>>

\* s.split(sep), sep not empty
RECURSIVE SplitOn(_, _)
SplitOn(s, sep) ==
    IF ~includes(s, sep) THEN <<s>>
    ELSE <<SubSeq(s, 1, IndexOf(s, sep) - 1)>>
           \o SplitOn(SubSeq(s, IndexOf(s, sep) + Len(sep), Len(s)), sep)

\* parts.join(sep)
RECURSIVE JoinWith(_, _)
JoinWith(parts, sep) ==
    IF parts = <<>> THEN <<>>
    ELSE IF Len(parts) = 1 THEN parts[1]
         ELSE parts[1] \o sep \o JoinWith(Tail(parts), sep)

\* c.toUpperCase() for one character
UpperChar(c) ==
    IF \E k \in 1..26 : Lower[k] = c THEN Upper[CHOOSE k \in 1..26 : Lower[k] = c] ELSE c

\* n.charAt(0).toUpperCase() + '.'
Initial(n) == IF n = <<>> THEN <<".">> ELSE <<UpperChar(n[1]), ".">>

\* the initial of every given name
InitialsOf(names) == [i \in DOMAIN names |-> Initial(names[i])]

\* firstName.split(' ').map(n => n.charAt(0).toUpperCase() + '.').join(' ')
Initials(firstName) == JoinWith(InitialsOf(SplitOn(firstName, <<SP>>)), <<SP>>)

\* formatAuthor for the parts of name.trim().split(',')
formatAuthorParts(name, parts) ==
    IF Len(parts) >= 2
    THEN trim(parts[1]) \o <<COMMA, SP>> \o Initials(trim(parts[2]))
    ELSE name

\* formatAuthor of convertBibtexToAPA
formatAuthor(name) == formatAuthorParts(name, SplitOn(trim(name), <<COMMA>>))

\* the author list of the APA form for the names already formatted
apaAuthorList(f) ==
    IF Len(f) = 1 THEN f[1]
    ELSE IF Len(f) = 2 THEN f[1] \o Chars(", & ") \o f[2]
    ELSE IF Len(f) <= 20
         THEN JoinWith(SubSeq(f, 1, Len(f) - 1), <<COMMA, SP>>)
                \o Chars(", & ") \o f[Len(f)]
         ELSE JoinWith(SubSeq(f, 1, 19), <<COMMA, SP>>) \o Chars(" . . . ") \o f[Len(f)]

\* every name of the list through formatAuthor
formatAuthors(authors) == [i \in DOMAIN authors |-> formatAuthor(authors[i])]

\* formattedAuthor of convertBibtexToAPA, <<>> without an author
apaAuthor(author) ==
    IF ~Present(author) THEN <<>>
    ELSE apaAuthorList(formatAuthors(SplitOn(author, Chars(" and "))))

\* the author list of the Chicago form
chicagoAuthorList(authors) ==
    IF Len(authors) = 1 THEN authors[1]
    ELSE IF Len(authors) = 2 THEN authors[1] \o Chars(", and ") \o authors[2]
    ELSE IF Len(authors) = 3
         THEN authors[1] \o <<COMMA, SP>> \o authors[2] \o Chars(", and ") \o authors[3]
         ELSE authors[1] \o Chars(" et al.")

\* formattedAuthor of convertBibtexToChicago
chicagoAuthor(author) ==
    IF ~Present(author) THEN <<>>
    ELSE chicagoAuthorList(SplitOn(author, Chars(" and ")))

\* s when the condition holds, else nothing
When(cond, s) == IF cond THEN s ELSE <<>>

\* edition.replace(/[^0-9]/g, '')
IsDigit(c) == \E k \in 1..10 : Digits[k] = c
DigitsOf(s) == SelectSeq(s, IsDigit)

\* the value of one digit
DigitValue(c) == (CHOOSE k \in 1..10 : Digits[k] = c) - 1

\* parseInt(digits, 10) of a string of digits; -1 stands for NaN
RECURSIVE ParseInt(_)
ParseInt(digits) ==
    IF digits = <<>> THEN -1
    ELSE IF Len(digits) = 1 THEN DigitValue(digits[1])
         ELSE 10 * ParseInt(SubSeq(digits, 1, Len(digits) - 1))
                + DigitValue(digits[Len(digits)])

\* the ordinal suffix convertBibtexToChicago computes
OrdinalSuffix(edNum) ==
    IF edNum % 10 = 1 /\ edNum % 100 # 11 THEN Chars("st")
    ELSE IF edNum % 10 = 2 /\ edNum % 100 # 12 THEN Chars("nd")
    ELSE IF edNum % 10 = 3 /\ edNum % 100 # 13 THEN Chars("rd")
    ELSE Chars("th")

\* the edition part of the Chicago form for the edition and its number
chicagoEditionOf(edition, edNum) ==
    IF edNum # -1
    THEN Chars(ToString(edNum)) \o OrdinalSuffix(edNum) \o Chars(" ed. ")
    ELSE edition \o Chars(" ed. ")

\* the edition part of the Chicago form
chicagoEdition(edition) ==
    IF Present(edition) /\ edition # <<"1">>
    THEN chicagoEditionOf(edition, ParseInt(DigitsOf(edition)))
    ELSE <<>>

\* the edition part of the APA form
apaEdition(edition) ==
    IF Present(edition) /\ edition # <<"1">>
    THEN Chars(" (") \o edition \o Chars(" ed.)")
    ELSE <<>>

\* .replace(/\.\.+/g, '.'): every run of two or more periods becomes one
RECURSIVE CollapsePeriods(_)
CollapsePeriods(s) ==
    IF s = <<>> THEN <<>>
    ELSE IF s[1] = "." /\ Len(s) >= 2 /\ s[2] = "." THEN CollapsePeriods(Tail(s))
         ELSE <<s[1]>> \o CollapsePeriods(Tail(s))

\* .replace(/\s+/g, ' '): every run of white space becomes one space
RECURSIVE CollapseSpaces(_)
CollapseSpaces(s) ==
    IF s = <<>> THEN <<>>
    ELSE IF IsSpace(s[1])
         THEN IF Len(s) >= 2 /\ IsSpace(s[2]) THEN CollapseSpaces(Tail(s))
              ELSE <<SP>> \o CollapseSpaces(Tail(s))
         ELSE <<s[1]>> \o CollapseSpaces(Tail(s))

\* entry.trim().replace(/\.\.+/g, '.').replace(/\s+/g, ' ')
CleanUp(s) == CollapseSpaces(CollapsePeriods(trim(s)))

\* pubParts.join(': '), then the year
chicagoImprint(address, publisher, year) ==
    JoinWith(When(Present(address), <<address>>) \o When(Present(publisher), <<publisher>>),
             <<COLON, SP>>)
      \o When(Present(year),
              When(Present(address) \/ Present(publisher), <<COMMA, SP>>) \o year)

\* the APA form for the fields extracted
apaEntry(entryType, fa, f) ==
    IF entryType = Chars("book")
    THEN When(fa # <<>>, fa \o <<SP>>)
           \o When(Present(f.year), <<LPAREN>> \o f.year \o Chars("). "))
           \o When(Present(f.title), <<"*">> \o f.title \o <<"*">>)
           \o apaEdition(f.edition)
           \o Chars(". ")
           \o When(Present(f.publisher), f.publisher \o <<".">>)
    ELSE When(fa # <<>>, fa \o <<SP>>)
           \o When(Present(f.year), <<LPAREN>> \o f.year \o Chars("). "))
           \o When(Present(f.title), <<"*">> \o f.title \o Chars("*. "))
           \o When(Present(f.publisher), f.publisher \o <<".">>)

\* the Chicago form for the fields extracted
chicagoEntry(entryType, fa, f) ==
    IF entryType = Chars("book")
    THEN When(fa # <<>>, fa \o Chars(". "))
           \o When(Present(f.title), <<"*">> \o f.title \o Chars("*. "))
           \o chicagoEdition(f.edition)
           \o chicagoImprint(f.address, f.publisher, f.year)
           \o <<".">>
    ELSE When(fa # <<>>, fa \o Chars(". "))
           \o When(Present(f.title), <<"*">> \o f.title \o Chars("*. "))
           \o chicagoImprint(f.address, f.publisher, f.year)
           \o When(Present(f.address) \/ Present(f.publisher) \/ Present(f.year), <<".">>)

\* the fields the two forms of the model use
EntryFields(bibtex) ==
    [n \in {"author", "title", "year", "publisher", "address", "edition"} |->
        extractInlineField(bibtex, Chars(n))]

convertBibtexToAPAOf(entryType, f) == CleanUp(apaEntry(entryType, apaAuthor(f.author), f))

convertBibtexToAPA(bibtex) == convertBibtexToAPAOf(EntryType(bibtex), EntryFields(bibtex))

convertBibtexToChicagoOf(entryType, f) ==
    CleanUp(chicagoEntry(entryType, chicagoAuthor(f.author), f))

convertBibtexToChicago(bibtex) ==
    convertBibtexToChicagoOf(EntryType(bibtex), EntryFields(bibtex))

\* formatBibliographyEntry for the formats apa and chicago
formatBibliographyEntry(bibtex, format) ==
    IF format = "apa" THEN convertBibtexToAPA(bibtex) ELSE convertBibtexToChicago(bibtex)

\* SpecEntry: formatBibliographyEntry applied to bounded entries
MaxEdition == 113

\* the edition field of an input: absent, a word, or the number num
Editions ==
    {[text |-> <<>>, num |-> 0], [text |-> Chars("Rev."), num |-> 0]}
      \cup {[text |-> Chars(ToString(n)), num |-> n] : n \in 1..MaxEdition}

BookAuthors == {<<>>, <<Chars("Wright, N. T.")>>, <<Chars("Wright, N. T."), Chars("Michael Bird")>>}

\* the entry text of an input
BookEntryText(in) ==
    JoinLines(<<<<AT>> \o Chars(in.type) \o <<LBRACE>> \o InlineKey \o <<COMMA>>>>
              \o When(in.authors # <<>>,
                      <<Chars("  author = {") \o JoinWith(in.authors, Chars(" and "))
                          \o Chars("},")>>)
              \o <<Chars("  title = {Paul},")>>
              \o When(in.edition.text # <<>>,
                      <<Chars("  edition = {") \o in.edition.text \o Chars("},")>>)
              \o <<Chars("  publisher = {SPCK},"), Chars("  year = {2013},")>>
              \o <<<<RBRACE>>>>)

InitEntry ==
    /\ bookIn \in [type : {"book", "misc"}, authors : BookAuthors,
                   edition : Editions, format : {"apa", "chicago"}]
    /\ bookOut = Unset
    /\ clipIn = Unset /\ clipOut = Unset
    /\ EscapeIdle /\ KeyIdle /\ ConvertIdle /\ InlineIdle
    /\ UpsertIdle /\ BibIdle /\ PasteIdle

FormatEntry ==
    /\ bookOut = Unset
    /\ bookOut' = formatBibliographyEntry(BookEntryText(bookIn), bookIn.format)
    /\ UNCHANGED <<bookIn, clipIn, clipOut, fieldValue, yamlValue, escStage, keyInput,
                   keyOutput, entry, metaText, backText, inlineIn, inlineOut>>
    /\ UNCHANGED <<upsertVars, bibVars, pasteVars>>

NextEntry == FormatEntry

SpecEntry == InitEntry /\ [][NextEntry]_vars

\* the ordinal suffix of n by the standard rule
StandardSuffix(n) ==
    CASE n % 10 = 1 /\ n % 100 # 11 -> Chars("st")
      [] n % 10 = 2 /\ n % 100 # 12 -> Chars("nd")
      [] n % 10 = 3 /\ n % 100 # 13 -> Chars("rd")
      [] OTHER -> Chars("th")

\* the entry formatted is a book with a numeric edition other than 1
NumericEditionFormatted ==
    /\ bookOut # Unset
    /\ bookIn.type = "book"
    /\ bookIn.edition.num > 1

\* C22: a book entry with a numeric edition n other than 1, formatted in APA
\* or Chicago style, renders the edition as n, its ordinal suffix and ' ed.'.
EditionOrdinal ==
    NumericEditionFormatted =>
        includes(bookOut, Chars(ToString(bookIn.edition.num))
                            \o StandardSuffix(bookIn.edition.num) \o Chars(" ed."))

\* the same for the Chicago style alone
EditionOrdinalChicago ==
    (NumericEditionFormatted /\ bookIn.format = "chicago") =>
        includes(bookOut, Chars(ToString(bookIn.edition.num))
                            \o StandardSuffix(bookIn.edition.num) \o Chars(" ed."))

\* edition 1 is left out of both forms
EditionOneSuppressed ==
    (bookOut # Unset /\ bookIn.edition.num = 1) => ~includes(bookOut, Chars(" ed."))

----------------------------------------------------------------------------
(* SpecParse: parseLogosClipboard applied to bounded clipboards, then the  *)
(* metadata block createOrUpdateReferenceNote gives a new reference note   *)

MaxClipLines == 3

\* the lines a clipboard of the model is made of
LineKinds == {"text", "head", "title", "pagesBrace", "pagesQuote", "close", "head2"}

LineText(kind) ==
    CASE kind = "text" -> Chars("By grace")
      [] kind = "head" -> Chars("@book{Key,")
      [] kind = "title" -> Chars("  title = {T},")
      [] kind = "pagesBrace" -> Chars("  pages = {5-9},")
      [] kind = "pagesQuote" -> Chars("  pages = ") \o <<QUOTE, "7", QUOTE, COMMA>>
      [] kind = "close" -> <<RBRACE>>
      [] kind = "head2" -> Chars("@misc{Other,")

\* the clipboard text of a sequence of lines
ClipboardText(kinds) == JoinLines([i \in DOMAIN kinds |-> LineText(kinds[i])])

InitParse ==
    /\ clipIn \in SeqsUpTo(LineKinds, MaxClipLines)
    /\ clipOut = Unset
    /\ bookIn = Unset /\ bookOut = Unset
    /\ EscapeIdle /\ KeyIdle /\ ConvertIdle /\ InlineIdle
    /\ UpsertIdle /\ BibIdle /\ PasteIdle

\* { mainText, bibtex, page } as a sequence
ResultOf(parsed) == <<parsed.mainText, parsed.bibtex, parsed.page>>

\* the parts of the result; the metadata block is its fourth part
ParsedMainText == clipOut[1]
ParsedBibtex == clipOut[2]
ParsedPage == clipOut[3]
NoteMetadata == clipOut[4]

\* the paste callback, line 40
ParseClipboard ==
    /\ clipOut = Unset
    /\ clipOut' = ResultOf(parseLogosClipboard(ClipboardText(clipIn)))
    /\ UNCHANGED <<clipIn, bookIn, bookOut, fieldValue, yamlValue, escStage, keyInput,
                   keyOutput, entry, metaText, backText, inlineIn, inlineOut>>
    /\ UNCHANGED <<upsertVars, bibVars, pasteVars>>

\* createOrUpdateReferenceNote for a new note, lines 28 and 29; the metadata
\* is MissingCiteKey when extractCiteKey throws
NewNoteMetadata ==
    /\ Len(clipOut) = 3
    /\ clipOut' = Append(clipOut, bibtexToMetadata(RemovePages(ParsedBibtex)))
    /\ UNCHANGED <<clipIn, bookIn, bookOut, fieldValue, yamlValue, escStage, keyInput,
                   keyOutput, entry, metaText, backText, inlineIn, inlineOut>>
    /\ UNCHANGED <<upsertVars, bibVars, pasteVars>>

NextParse == ParseClipboard \/ NewNoteMetadata

SpecParse == InitParse /\ [][NextParse]_vars

\* the text from the '@' after the first split point to the end, trimmed and
\* without its pages field; <<>> when there is no split point
EntryToTheEnd(clipboard) ==
    IF SplitPoints(clipboard) = {} THEN <<>>
    ELSE RemovePages(trim(SubSeq(clipboard, Min(SplitPoints(clipboard)) + 1,
                                 Len(clipboard))))

\* the trimmed text before the first split point
TextBeforeEntry(clipboard) ==
    IF SplitPoints(clipboard) = {} THEN trim(clipboard)
    ELSE trim(SubSeq(clipboard, 1, Min(SplitPoints(clipboard)) - 1))

\* C23: parseLogosClipboard splits at the first newline followed by '@':
\* mainText is the trimmed text before it and the entry is everything from
\* that '@' to the end of the clipboard, the pages field removed, also when
\* later lines start with '@'.
SplitAtFirstEntryLine ==
    Len(clipOut) >= 3 =>
        /\ ParsedMainText = TextBeforeEntry(ClipboardText(clipIn))
        /\ ParsedBibtex = EntryToTheEnd(ClipboardText(clipIn))

\* the same for the clipboards with at most one line after the first that
\* starts with '@'
SplitAtOnlyEntryLine ==
    (Len(clipOut) >= 3 /\ Cardinality(SplitPoints(ClipboardText(clipIn))) <= 1) =>
        /\ ParsedMainText = TextBeforeEntry(ClipboardText(clipIn))
        /\ ParsedBibtex = EntryToTheEnd(ClipboardText(clipIn))

\* mainText is the trimmed text before the first split point
MainTextBeforeEntry ==
    Len(clipOut) >= 3 => ParsedMainText = TextBeforeEntry(ClipboardText(clipIn))

\* the metadata block has a line with the key 'pages'
HasPagesLine(metadata) ==
    \E l \in Range(SplitLines(metadata)) : ColonIndex(l) # 0 /\ LineKey(l) = Chars("pages")

\* the entry pasted (the lines from the first split point to the next) has
\* a pages field of one of the kinds
PastedEntryHas(kinds) ==
    \E i \in 2..Len(clipIn) :
        /\ clipIn[i] \in {"head", "head2"}
        /\ \A j \in 2..(i - 1) : clipIn[j] \notin {"head", "head2"}
        /\ \E k \in (i + 1)..Len(clipIn) :
              /\ clipIn[k] \in kinds
              /\ \A j \in (i + 1)..k : clipIn[j] \notin {"head", "head2"}

\* a metadata block has been computed for the new reference note
MetadataWritten ==
    /\ Len(clipOut) = 4
    /\ NoteMetadata # MissingCiteKey

\* C24: when the pasted entry has a pages field, brace-delimited or
\* quote-delimited, the page of the citation is taken from it and the
\* metadata block of a newly created reference note has no 'pages' line.
PagesNeverInMetadata ==
    (MetadataWritten /\ PastedEntryHas({"pagesBrace", "pagesQuote"})) =>
        /\ ParsedPage # <<>>
        /\ ~HasPagesLine(NoteMetadata)

\* the same for the entries whose pages fields are all brace-delimited
BracePagesNeverInMetadata ==
    (MetadataWritten /\ PastedEntryHas({"pagesBrace"}) /\ ~PastedEntryHas({"pagesQuote"})) =>
        /\ ParsedPage # <<>>
        /\ ~HasPagesLine(NoteMetadata)

----------------------------------------------------------------------------
(* The order of the lines the serializer emits *)

\* the lines `  field = {value},` of the fields the metadata block has, from
\* the i-th of the recognized field list on, in the order of that list
RECURSIVE ListOrderLines(_, _)
ListOrderLines(lines, i) ==
    IF i > Len(Fields) THEN <<>>
    ELSE When(FieldOf(lines, Chars(Fields[i])) # <<>>,
              <<<<SP, SP>> \o Chars(Fields[i]) \o <<SP, EQUALS, SP, LBRACE>>
                  \o FieldOf(lines, Chars(Fields[i])) \o <<RBRACE, COMMA>>>>)
         \o ListOrderLines(lines, i + 1)

\* the entry of a metadata block with its field lines in the order of the
\* recognized field list
ListOrderEntry(lines) ==
    JoinLines(<<<<AT>> \o FieldOf(lines, Chars("type")) \o <<LBRACE>>
                  \o FieldOf(lines, Chars("citekey")) \o <<COMMA>>>>
              \o ListOrderLines(lines, 1) \o <<<<RBRACE>>>>)

\* the serializer has returned an entry
Serialized == backText # Unset /\ backText # NoMatch

\* C25: the serializer emits '@type{citekey,', one line per field the
\* metadata block has and none for a field it lacks, in the order of the
\* recognized field list (author, title, year, publisher, ..., month), and
\* a closing brace.
SerializedInListOrder ==
    Serialized => backText = ListOrderEntry(SplitLines(trim(metaText)))

\* the same lines, in whatever order
SerializedLinesOfFields ==
    Serialized =>
        /\ Len(SplitLines(backText)) = Len(SplitLines(ListOrderEntry(SplitLines(trim(metaText)))))
        /\ Range(SplitLines(backText))
             = Range(SplitLines(ListOrderEntry(SplitLines(trim(metaText)))))
        /\ Head(SplitLines(backText)) = Head(SplitLines(ListOrderEntry(SplitLines(trim(metaText)))))
        /\ SplitLines(backText)[Len(SplitLines(backText))] = <<RBRACE>>

----------------------------------------------------------------------------
(* SpecExport: the export-all-references command over bounded reference    *)
(* folders                                                                 *)

\* a reference note the plugin created for the key
ModernNote(key) ==
    NewRefBody(Parsed[ClipText \o <<NL>> \o ClipEntry(key, <<>>)].bibtex,
               <<LinkTo("Note", "Key-1")>>)

\* a legacy reference note: the entry as it was pasted, in a fence
LegacyEntry(key) == Chars("@book{") \o Chars(key) \o Chars(", title = {T}}")
LegacyNote(key) == <<FENCE \o "bibtex", NL>> \o LegacyEntry(key) \o <<NL, FENCE>>

\* a legacy note that was given a header without a citekey
HalfHeaderNote(key) == Rule \o <<NL>> \o Chars("type: book") \o <<NL>> \o Rule \o <<NL>>
                         \o LegacyNote(key)

\* a note without an entry
PlainNote == Chars("to do")

\* what the vault may have for a key: its kind and its body
FolderItems(key) ==
    {[kind |-> "none", body |-> <<>>], [kind |-> "folder", body |-> <<>>]}
      \cup {[kind |-> "file", body |-> b] :
              b \in {ModernNote(key), LegacyNote(key), HalfHeaderNote(key), PlainNote}}

\* the orders the folder may list the keys in
ChildOrders(keys) == {o \in SeqsUpTo(keys, Cardinality(keys)) :
                         Len(o) = Cardinality(keys) /\ Range(o) = keys}

InitExport ==
    /\ \E items \in [CiteKeys -> UNION {FolderItems(k) : k \in CiteKeys}] :
          /\ \A k \in CiteKeys : items[k] \in FolderItems(k)
          /\ refKind = [k \in CiteKeys |-> items[k].kind]
          /\ refBody = [k \in CiteKeys |-> items[k].body]
    /\ children \in ChildOrders({k \in CiteKeys : refKind[k] # "none"})
    /\ folderMade \in {f \in BOOLEAN : children # <<>> => f}
    /\ counters = [n \in FileNames |-> 0]
    /\ saved = [n \in FileNames |-> 0]
    /\ callouts = [n \in ContentNotes |-> <<>>]
    /\ exported = NoFile
    /\ pc = [p \in Procs |-> "idle"]
    /\ loc = [p \in Procs |-> NoLoc]
    /\ minted = <<>>
    /\ started = 0
    /\ session = 0
    /\ lastResult = "none"
    /\ notice = ""
    /\ BibIdle /\ UpsertIdle /\ TextIdle

NextExport == \E ok \in BOOLEAN : ExportAllReferences(ok)

SpecExport == InitExport /\ [][NextExport]_vars

\* the note has a header with type and citekey
HasValidHeader(body) ==
    /\ HeaderMatch(body) # NoMatch
    /\ FieldOf(SplitLines(trim(HeaderMatch(body))), Chars("type")) # <<>>
    /\ FieldOf(SplitLines(trim(HeaderMatch(body))), Chars("citekey")) # <<>>

\* the notes of the folder that carry an entry, in folder order
IsEntryNote(k) ==
    /\ refKind[k] = "file"
    /\ HasValidHeader(refBody[k]) \/ FenceMatch(refBody[k]) # NoMatch
EntryNotes == SelectSeq(children, IsEntryNote)

\* the entries of the export file
ExportedEntries == SplitOn(exported, <<NL, NL>>)

\* a middle line of the serialized form: `  field = {value},`
IsFieldLine(l) ==
    /\ IsPrefix(<<SP, SP>>, l)
    /\ includes(l, <<SP, EQUALS, SP, LBRACE>>)
    /\ Len(l) >= 2 /\ SubSeq(l, Len(l) - 1, Len(l)) = <<RBRACE, COMMA>>

\* the serialized form: '@type{citekey,', field lines, a closing brace
IsSerializedForm(lines) ==
    /\ Len(lines) >= 2
    /\ lines[1] # <<>> /\ lines[1][1] = AT /\ lines[1][Len(lines[1])] = COMMA
    /\ includes(lines[1], <<LBRACE>>)
    /\ lines[Len(lines)] = <<RBRACE>>
    /\ \A i \in 2..(Len(lines) - 1) : IsFieldLine(lines[i])

\* the export file holds one entry per note with an entry, in folder order
OneEntryPerNote ==
    /\ Len(ExportedEntries) = Len(EntryNotes)
    /\ \A i \in DOMAIN EntryNotes :
          includes(ExportedEntries[i], <<LBRACE>> \o Chars(EntryNotes[i]) \o <<COMMA>>)

\* C26: the export holds exactly one entry per reference note with a valid
\* header or a fenced entry (a header without type or citekey falls back to
\* the fence), in folder order and joined by a blank line, and every entry,
\* modern or legacy, is in serialized form.
ExportCanonicalEntries ==
    lastResult = "exported" =>
        /\ OneEntryPerNote
        /\ \A e \in Range(ExportedEntries) : IsSerializedForm(SplitLines(e))

\* one entry per note in folder order, whatever the form of the entries
ExportOneEntryPerNote == lastResult = "exported" => OneEntryPerNote

\* without a legacy entry in the folder every exported entry is in
\* serialized form
ExportModernCanonical ==
    (lastResult = "exported"
       /\ \A i \in DOMAIN EntryNotes : HasValidHeader(refBody[EntryNotes[i]])) =>
        \A e \in Range(ExportedEntries) : IsSerializedForm(SplitLines(e))

\* an export reports the missing folder, or no entry, exactly when that is so
ExportReports ==
    /\ lastResult = "exportEmpty" => (folderMade /\ EntryNotes = <<>>)
    /\ lastResult = "exported" => EntryNotes # <<>>

----------------------------------------------------------------------------
(* SpecReplace: updateBibliographyInDocument applied once to a note that   *)
(* has a Bibliography section, for bounded rendered lists                  *)

MaxListLen == 3

\* the characters of the note field of the entry listed
ListChars == {"a", "1", "$", "&", "'", GRAVE}

\* a rendered list of one entry in the latex format: the entry in a fence
RenderedLists ==
    {<<FENCE \o "bibtex", NL, "@misc{D, note = {">> \o x \o <<"}}", NL, FENCE>> :
        x \in SeqsUpTo(ListChars, MaxListLen)}

InitReplace ==
    /\ note \in {b \in ContentBodies : BibHeadingIndex(b) # 0}
    /\ noteBefore = note
    /\ lastList \in RenderedLists
    /\ ran = FALSE
    /\ links = <<>>
    /\ bibFormat = "latex"
    /\ repeated = FALSE
    /\ bibSteps = 0
    /\ UpsertIdle
    /\ PasteIdle
    /\ TextIdle

\* updateBibliographyInDocument(app, activeFile, bibliographyList) with the
\* list lastList
UpdateBibliographyInDocument ==
    /\ ~ran
    /\ ran' = TRUE
    /\ noteBefore' = note
    /\ note' = replaceBibliography(note, lastList)
    /\ UNCHANGED <<lastList, links, bibFormat, repeated, bibSteps>>
    /\ UNCHANGED upsertVars
    /\ UNCHANGED <<pasteVars, textVars>>

NextReplace == UpdateBibliographyInDocument

SpecReplace == InitReplace /\ [][NextReplace]_vars

\* the note is the text before the heading, the heading, the list r, and
\* then a tail of the note before
SectionBodyIs(before, after, r) ==
    \E e \in 1..(Len(before) + 1) :
        after = SubSeq(before, 1, BibHeadingIndex(before) - 1)
                  \o BibHeading \o <<NL>> \o r \o <<NL>>
                  \o SubSeq(before, e, Len(before))

\* the command found the section: the heading line, then a line break
SectionFound == includes(noteBefore, BibHeading \o <<NL>>)

\* C27: when the note has a Bibliography section, after the replacement
\* the body of that section is exactly the rendered list, character for
\* character, also for lists with '$' sequences such as '$&', '$1', '$$'.
SectionBodyIsList == (ran /\ SectionFound) => SectionBodyIs(noteBefore, note, lastList)

\* the same for every note with a Bibliography heading line, the ones whose
\* heading is the last line without a line break too
SectionBodyIsListAnywhere == ran => SectionBodyIs(noteBefore, note, lastList)

\* the same for the lists without '$', in the notes whose heading line is
\* followed by a line
SectionBodyIsPlainList ==
    (ran /\ "$" \notin Range(lastList) /\ SectionFound)
       => SectionBodyIs(noteBefore, note, lastList)

\* the same for the lists in which every '$' is followed by a digit or a
\* letter
SectionBodyIsListWithDollarDigit ==
    (/\ ran
     /\ SectionFound
     /\ \A i \in DOMAIN lastList :
           lastList[i] = "$" => lastList[i + 1] \in {"a", "1", "}}"})
       => SectionBodyIs(noteBefore, note, lastList)

----------------------------------------------------------------------------
(* The text of a reference note outside its Citations region *)

\* where the region of the note ends: the place of the heading that follows
\* the Citations heading, or the end of the note
RegionEnd(body) ==
    LET a == IndexOf(body, CitationsHeading) + Len(CitationsHeading)
    IN Min({k \in a..(Len(body) + 1) :
               k = Len(body) + 1 \/ HeadingAt(body, k) > 0})

\* the text before the Citations heading and the text from the following
\* heading onward
TextBeforeRegion(body) == SubSeq(body, 1, IndexOf(body, CitationsHeading) - 1)
TextAfterRegion(body) == SubSeq(body, RegionEnd(body), Len(body))

\* the update has written a line into the note
LineWritten == hist # <<>> /\ refNote # prevNote

\* the note before the update is outside the region of the note after it
OutsideRegionKept(before, after) ==
    IF includes(before, CitationsHeading)
    THEN /\ TextBeforeRegion(after) = TextBeforeRegion(before)
         /\ TextAfterRegion(after) = TextAfterRegion(before)
    ELSE /\ includes(after, CitationsHeading)
         /\ IsPrefix(before, TextBeforeRegion(after))

\* C28: an update of a reference note that writes a citation line changes
\* nothing outside the Citations region: the text before the heading and the
\* text from the following heading onward are the same before and after, and
\* a note without the heading is kept whole before the heading appended to it.
OutsideCitationsUnchanged == LineWritten => OutsideRegionKept(prevNote, refNote)

\* the same of the notes that have the heading
OutsideCitationsUnchangedWithHeading ==
    (LineWritten /\ includes(prevNote, CitationsHeading))
        => OutsideRegionKept(prevNote, refNote)

\* the same of the notes without the heading that have no white space at
\* either end
OutsideCitationsUnchangedTrimmed ==
    (LineWritten /\ ~includes(prevNote, CitationsHeading)
                 /\ trim(prevNote) = prevNote)
        => OutsideRegionKept(prevNote, refNote)

----------------------------------------------------------------------------
(* The counter of a content note and the pastes into the other notes *)

\* the pastes that have taken a counter value for the notes of the set
PastesInto(notes) == {i \in DOMAIN minted : minted[i].note \in notes}

\* the notes that have the file name of the note
SameFileName(n) == {m \in ContentNotes : FileName(m) = FileName(n)}

\* C29: a paste into a content note leaves the counter of every other content
\* note as it was, the notes told apart by their path in the vault: while the
\* settings are loaded once, the counter of each note is the number of pastes
\* that took a value for that note (two notes with one file name in two
\* folders count apart, each from 1).
CounterOfNoteCountsItsPastes ==
    session = 0 =>
        \A n \in ContentNotes :
            counters[FileName(n)] = Cardinality(PastesInto({n}))

\* the same of the notes told apart by their file name
CounterOfFileNameCountsItsPastes ==
    session = 0 =>
        \A n \in ContentNotes :
            counters[FileName(n)] = Cardinality(PastesInto(SameFileName(n)))

\* the same of the notes that share their file name with no other note
CounterOfUniqueNameCountsItsPastes ==
    session = 0 =>
        \A n \in ContentNotes :
            SameFileName(n) = {n}
                => counters[FileName(n)] = Cardinality(PastesInto({n}))

----------------------------------------------------------------------------
(* Two paste commands that overlap on one content note *)

\* the commands that have taken their counter value and not yet ended
InFlight == {p \in Procs : pc[p] \notin {"idle", "clip"}}

\* C30: when paste commands into one content note interleave at their awaits,
\* the read and the increment of the note's counter are one step: two pastes
\* into the note get different counter values and different block
\* identifiers, and the counter ends at its first value plus the number of
\* the pastes that took a value (plus 2 after two pastes).
IncrementNeverSplit ==
    /\ \A i, j \in DOMAIN minted :
          (i < j /\ minted[i].note = minted[j].note)
             => /\ minted[i].ctr # minted[j].ctr
                /\ minted[i].blockId # minted[j].blockId
    /\ \A n \in ContentNotes :
          counters[FileName(n)] = Cardinality(PastesInto(SameFileName(n)))

\* two commands on one note, the second started before the first read the
\* clipboard, both between the increment and the end of saveSettings: the
\* values are 1 and 2 and the counter is 2
IncrementNeverSplitWitness ==
    /\ InFlight = Procs
    /\ \A p \in Procs : pc[p] = "save"
    /\ loc[1].note = loc[2].note
    /\ loc[1].key = loc[2].key
    /\ {loc[1].ctr, loc[2].ctr} = {1, 2}
    /\ Len(minted) = 2
    /\ minted[1].blockId # minted[2].blockId
    /\ counters[FileName(loc[1].note)] = 2

----------------------------------------------------------------------------
(* The page annotation of a citation line *)

\* a page that names a range: it holds a hyphen or an en dash
IsPageRange(page) == \E i \in DOMAIN page : page[i] \in {DASH, ENDASH}

\* the annotation the documentation shows for a page range
PageMarkRange == " \\u2192 pp. "

\* the page of a listed citation line, <<>> when the line has none
PageOfLine(l) == SubSeq(l, 3, Len(l))

\* C21: every citation line with a page that a paste wrote into a reference
\* note annotates a page range with 'pp.' and a single page with 'p.'.
RefLinePageLabel ==
    \A k \in CiteKeys :
        refKind[k] = "file" =>
            \A l \in Range(CitationList(refBody[k])) :
                Len(l) >= 2 =>
                    l[2] = IF IsPageRange(PageOfLine(l)) THEN PageMarkRange ELSE PageMark

\* the lines with a single page are annotated with 'p.'
RefLineSinglePageLabel ==
    \A k \in CiteKeys :
        refKind[k] = "file" =>
            \A l \in Range(CitationList(refBody[k])) :
                (Len(l) >= 2 /\ ~IsPageRange(PageOfLine(l))) => l[2] = PageMark

====
